---- MODULE Spec2Model ----
(***************************************************************************)
(* A model of the node run lifecycle of pyiron_workflow: Node.run and its  *)
(* aliases, Node.run_data_tree (the pull path), the ran/run signal push,   *)
(* and the executor hand-off.                                              *)
(*                                                                         *)
(* The population is three function nodes n1, n2, n3 and one macro m.      *)
(* n3 is either a sibling of n1 and n2 or the child of m (chosen in Init). *)
(* A run, pull or execute call is one action: everything the call does,    *)
(* including the runs it triggers over signals, happens inside it.         *)
(*                                                                         *)
(* Spec is the run lifecycle on graphs of data and run connections,        *)
(* FairSpec adds that submitted computations end; SignalSpec is the signal *)
(* graph with both kinds of signal input; RaceSpec lets the completion     *)
(* callbacks of two executor nodes overlap; ReplaceSpec is the replacement *)
(* of a child of the macro; ChildSpec is the adding and removing of        *)
(* children and the parent setter; MapSpec is the IO of a macro built with *)
(* an input-map and an output-map; BackendSpec is the storage_backend      *)
(* property over a changing parent chain; StoreSpec is saving, loading and *)
(* the construction of a node beside a saved file.  SemSpec is labels,     *)
(* parents and copies of semantic objects on their own; LoopSpec is a run  *)
(* of the while-loop macro and FairLoopSpec adds that a called run goes    *)
(* on; PackageSpec is the building and changing of node packages; PoolSpec *)
(* is concurrent calls of submit on one CloudProcessPoolExecutor.          *)
(***************************************************************************)
EXTENDS Integers, Sequences, FiniteSets, TLC

VARIABLES
    label,      \* node -> its semantic label (Semantics._label)
    parent,     \* node -> its semantic parent, or None
    conn,       \* channel -> ordered list of connected partner channels
    inVal,      \* function node -> value of its data input x
    outVal,     \* function node -> value of its data output result
    running,    \* node -> Runnable.running
    failed,     \* node -> Runnable.failed
    executor,   \* node -> whether an executor is assigned
    future,     \* node -> the future stored by an executor run
    received,   \* node -> the senders its accumulate_and_run input has noted
    thread,     \* node -> how far the thread serving its future has come
    channels,   \* node -> the labels of its data channels
    starting,   \* the starting nodes of the macro, in order
    io,         \* the data IO of the macro: name, linked child channel, and
                \* the channels outside the macro connected to it
    registry,   \* composite -> the nodes it has registered as its children
    maps,       \* child channel -> its entry in inputs_map or outputs_map
    save_after_run, \* node -> Node.save_after_run
    saved,      \* node -> its storage: NoFile, or the content in a sequence
    backend,    \* node or composite -> Node._storage_backend
    sem,        \* object -> its Semantics component: _label, _parent, _owner
    loop,       \* the run of a while-loop macro: its children's values and
                \* the node that runs next
    pkg,        \* the node packages and the node classes
    pool,       \* a CloudProcessPoolExecutor and the threads submitting to it
    last,       \* what the last call was and how it ended (history)
    steps       \* connections made plus operations done so far

vars == <<label, parent, conn, inVal, outVal, running, failed, executor, future,
          received, thread, channels, starting, io, registry, maps, save_after_run, saved,
          backend, sem, loop, pkg, pool, last, steps>>

\* what belongs to the macro as a composite
composite == <<channels, starting, io, registry, maps>>

\* what belongs to saving and loading
storage == <<save_after_run, saved, backend>>

\* what stands apart from the graph of nodes: semantic objects on their own,
\* the while loop, the node packages, the process pool
apart == <<sem, loop, pkg, pool>>

\* the value of a variable of apart where it plays no part
Unused == <<>>
Apart == sem = Unused /\ loop = Unused /\ pkg = Unused /\ pool = Unused

\* the composites: the macro m, and one more that is not a node of the
\* population
Composites == {"m", "other"}

\* the registries as the parents of the nodes tell them
RegistryOf(par) == [c \in Composites |-> {k \in {"n1", "n2", "n3"} : par[k] = c}]

(***************************************************************************)
(* Bounds of the explored state space.                                     *)
(***************************************************************************)
MaxVal == 3      \* integer data values are 0..MaxVal
MaxSteps == 3    \* connections of the graph plus operations applied to it

(***************************************************************************)
(* The population.                                                         *)
(***************************************************************************)
None == "None"
FnNodes == {"n1", "n2", "n3"}
Macros == {"m"}
Nodes == FnNodes \cup Macros
NodeSeq == <<"n1", "n2", "n3", "m">>

\* the position of a node in NodeSeq: the order in which labels sort
Rank(n) == CHOOSE i \in 1..Len(NodeSeq) : NodeSeq[i] = n

\* str(id(node)): a decimal string, different for every live object
IdStr(n) == CASE n = "n1" -> "140301"
              [] n = "n2" -> "140302"
              [] n = "n3" -> "140303"
              [] OTHER    -> "140304"

(***************************************************************************)
(* Data values: NotData (the no-data sentinel), integers, and a string.    *)
(***************************************************************************)
NotData == <<"NotData", 0>>
Bad == <<"str", 0>>
IntVal(i) == <<"int", i>>
IsInt(v) == v[1] = "int"
Values == {NotData, Bad} \cup {IntVal(i) : i \in 0..MaxVal}

\* def add_one(x): result = x + 1
add_one(v) ==
    IF IsInt(v) THEN [exc |-> "ok", val |-> IntVal(v[2] + 1)]
    ELSE [exc |-> "TypeError", val |-> NotData]

\* def fail_at_zero(x): y = 1 / x
\* (1 / 1 is 1.0, which equals 1; 1 / x for x > 1 is a fraction, outside Values)
fail_at_zero(v) ==
    IF ~IsInt(v) THEN [exc |-> "TypeError", val |-> NotData]
    ELSE IF v[2] = 0 THEN [exc |-> "ZeroDivisionError", val |-> NotData]
    ELSE IF v[2] = 1 THEN [exc |-> "ok", val |-> IntVal(1)]
    ELSE [exc |-> "ok", val |-> <<"float", v[2]>>]

\* the function each node wraps, and the type hint of its input
NodeFn(n) == IF n = "n2" THEN "fail_at_zero" ELSE "add_one"
Hint(n) == IF n = "n3" THEN "int" ELSE "none"

on_run(n, v) == IF NodeFn(n) = "fail_at_zero" THEN fail_at_zero(v) ELSE add_one(v)

(***************************************************************************)
(* Channels and connections.                                               *)
(***************************************************************************)
Channels == Nodes \X {"x", "result", "run", "accumulate_and_run", "ran"}

Elems(s) == {s[i] : i \in 1..Len(s)}
Remove(s, e) == SelectSeq(s, LAMBDA z : z # e)

\* Channel.connect: both ends record the partner
Connect(c, a, b) ==
    IF b \in Elems(c[a]) THEN c
    ELSE [c EXCEPT ![a] = Append(@, b), ![b] = Append(@, a)]

\* Channel.disconnect_all: the channel forgets every partner and they forget it
DisconnectAll(c, a) ==
    [ch \in Channels |-> IF ch = a THEN <<>> ELSE Remove(c[ch], a)]

\* the (channel, partner) pairs disconnect_all returns
DisconnectedPairs(c, a) == [i \in 1..Len(c[a]) |-> <<a, c[a][i]>>]

\* Signals.disconnect_run: drop everything that can trigger the node
disconnect_run(c, n) == DisconnectAll(c, <<n, "run">>)

RECURSIVE ConnectPairs(_, _, _)
ConnectPairs(c, pairs, i) ==
    IF i > Len(pairs) THEN c
    ELSE ConnectPairs(Connect(c, pairs[i][1], pairs[i][2]), pairs, i + 1)

(***************************************************************************)
(* The state a call works on: the mutable fields, plus how the call ended  *)
(* (status), which nodes computed, in order (log), and which signals were  *)
(* delivered, in order (sigs: pairs of sending and receiving channel).     *)
(***************************************************************************)
Cur == [label |-> label, conn |-> conn, inVal |-> inVal, outVal |-> outVal,
        running |-> running, failed |-> failed, future |-> future,
        received |-> received, save_after_run |-> save_after_run, saved |-> saved,
        status |-> "ok", raiser |-> None, log |-> <<>>, sigs |-> <<>>,
        events |-> <<>>]

NoFuture == [state |-> "none", arg |-> NotData, emit |-> FALSE, result |-> NotData,
             exc |-> "ok"]
NoKw == <<"none", 0>>
NoFile == <<>>

\* the data input channels of a node; a macro exposes those of its children
Children(m) == {k \in FnNodes : parent[k] = m}
Inputs(n) == IF n \in Macros THEN {<<k, "x">> : k \in Children(n)} ELSE {<<n, "x">>}

\* the data channel labels of a node built from add_one or fail_at_zero
Compatible == {"x", "result"}
InputLabels == {"x", "not_x"}

\* whether any channel of the node k, data or signal, has a connection
Connected(c, k) == \E ch \in Channels : ch[1] = k /\ c[ch] # <<>>

\* Macro._build_inputs and _build_outputs: every data channel of a child that
\* has no connection gets a macro channel named after child and channel and
\* linked with it; g holds label, parent and conn
BuildIO(g, chans) ==
    {[name |-> <<g.label[k], l>>, link |-> <<k, l>>, ext |-> <<>>] :
        <<k, l>> \in {c \in FnNodes \X (Compatible \cup {"not_x", "changed_output_label"}) :
                        /\ g.parent[c[1]] = "m"
                        /\ c[2] \in chans[c[1]]
                        /\ c \in Channels => g.conn[c] = <<>>}}

\* an entry of inputs_map or outputs_map for a child channel: none, None
\* (the channel is switched off), or the label to expose it under
Absent == <<"absent", "">>
Disabled == <<"None", "">>
Renamed(l) == <<"as", l>>
NoMaps == [ch \in FnNodes \X Compatible |-> Absent]

\* DataChannel.ready: holds data, and the data conforms to the type hint
InputReady(st, ch) ==
    /\ st.inVal[ch[1]] # NotData
    /\ Hint(ch[1]) = "int" => IsInt(st.inVal[ch[1]])

InputsReady(st, n) == \A ch \in Inputs(n) : InputReady(st, ch)

\* Node.data_input_locked
data_input_locked(st, n) == st.running[n]

\* a readiness that does not look at the running flag
RunnableReady_ignores_running(st, n) == ~st.failed[n]

\* Runnable.ready
RunnableReady(st, n) == ~(st.running[n] \/ st.failed[n])

\* a readiness that forgets the data inputs
ready_without_inputs(st, n) == RunnableReady(st, n)

\* Node.ready
ready(st, n) == RunnableReady(st, n) /\ InputsReady(st, n)

\* DataChannel.fetch: the first connection that holds data wins.  The
\* connections of the input x of a child k of a macro that come from outside
\* the macro are those of the macro's own input channel, which hands its
\* value on to k; scope tells the two channels apart
FetchVal(st, k, scope) ==
    LET srcs == SelectSeq(st.conn[<<k, "x">>], LAMBDA s : parent[s[1]] = scope)
        have == {i \in 1..Len(srcs) : st.outVal[srcs[i][1]] # NotData}
    IN  IF have = {} THEN st.inVal[k]
        ELSE st.outVal[srcs[CHOOSE i \in have : \A j \in have : i <= j][1]]

\* Inputs.fetch
Fetch(st, n) ==
    [st EXCEPT !.inVal = [k \in FnNodes |->
        IF <<k, "x">> \in Inputs(n) THEN FetchVal(st, k, parent[n]) ELSE st.inVal[k]]]

\* set_input_values(**kwargs)
set_input_values(st, n, kw) ==
    IF kw = NoKw THEN st ELSE [st EXCEPT !.inVal[n] = kw]

(***************************************************************************)
(* Topology: the data tree of a node and a linear execution order for it.  *)
(***************************************************************************)
\* the nodes of the same scope that a node takes data from
Upstream(st, n) ==
    {src[1] : src \in UNION {Elems(st.conn[ch]) : ch \in Inputs(n)}}
        \cap {k \in Nodes : parent[k] = parent[n]}

RECURSIVE Closure(_, _, _)
Closure(st, frontier, seen) ==
    IF frontier \subseteq seen THEN seen
    ELSE Closure(st, UNION {Upstream(st, k) : k \in frontier}, seen \cup frontier)

get_nodes_in_data_tree(st, n) == Closure(st, {n}, {})

\* one valid order, ties broken by label; ok is FALSE when the data is cyclic
RECURSIVE Linearize(_, _, _)
Linearize(st, remaining, acc) ==
    LET free == {k \in remaining : Upstream(st, k) \subseteq Elems(acc)}
    IN  IF remaining = {} THEN [ok |-> TRUE, order |-> acc]
        ELSE IF free = {} THEN [ok |-> FALSE, order |-> acc]
        ELSE LET k == CHOOSE x \in free : \A y \in free : Rank(x) <= Rank(y)
             IN  Linearize(st, remaining \ {k}, Append(acc, k))

RECURSIVE DisconnectRunOfAll(_, _, _)
DisconnectRunOfAll(c, order, i) ==
    IF i > Len(order) THEN [conn |-> c, pairs |-> <<>>]
    ELSE LET n == order[i]
             rest == DisconnectRunOfAll(disconnect_run(c, n), order, i + 1)
         IN  [conn |-> rest.conn,
              pairs |-> DisconnectedPairs(c, <<n, "run">>) \o rest.pairs]

RECURSIVE ConnectChain(_, _, _)
ConnectChain(c, order, i) ==
    IF i >= Len(order) THEN c
    ELSE ConnectChain(Connect(c, <<order[i], "ran">>, <<order[i + 1], "run">>),
                      order, i + 1)

\* a sequence holding the members of a set, in the order of iter
SeqOf(set, iter) == SelectSeq(iter, LAMBDA k : k \in set)

\* set_run_connections_according_to_linear_dag: break the run connections of
\* the tree's nodes, wire ran > run along the linear order; on a cycle put the
\* connections back as they were and fail
set_run_connections_according_to_linear_dag(st, tree, iter) ==
    LET broken == DisconnectRunOfAll(st.conn, SeqOf(tree, iter), 1)
        lin == Linearize(st, tree, <<>>)
    IN  IF lin.ok
        THEN [ok |-> TRUE, conn |-> ConnectChain(broken.conn, lin.order, 1),
              pairs |-> broken.pairs, starter |-> lin.order[1]]
        ELSE [ok |-> FALSE, conn |-> st.conn, pairs |-> <<>>, starter |-> None]

(***************************************************************************)
(* Node.run, Node.run_data_tree and the emission of ran.                   *)
(***************************************************************************)
\* run() with its default arguments: what a run signal calls
RunFlags == [tree |-> FALSE, parents |-> FALSE, fetch |-> TRUE, check |-> TRUE,
             local |-> FALSE, emit |-> TRUE]

\* the call ends with exception exc, raised in node n
Raise(st, exc, n) == [st EXCEPT !.status = exc, !.raiser = n]

\* the temporary label of run_data_tree: node.label + str(id(node))
ModifiedLabel(st, n) == st.label[n] \o IdStr(n)

\* every node of the tree gets its temporary label
Relabel(st, tree) ==
    [st EXCEPT !.label = [k \in Nodes |->
        IF k \in tree THEN ModifiedLabel(st, k) ELSE @[k]]]

RestoreLabels(st, tree, original) ==
    [st EXCEPT !.label = [k \in Nodes |-> IF k \in tree THEN original[k] ELSE @[k]]]

\* an executor check that never finds anything
ExecutorInTree_unchecked(tree) == FALSE

\* run_data_tree refuses a tree that holds a node with an executor
ExecutorInTree(tree) == \E k \in tree : executor[k]

\* an except branch that re-raises with the temporary labels still in place
OnDagFailure_keeps_labels(st, tree, original, n) ==
    Raise(st, "CircularDataFlowError", n)

\* the except branch of run_data_tree: the labels are repaired, the error goes on
OnDagFailure(st, tree, original, n) ==
    Raise(RestoreLabels(st, tree, original), "CircularDataFlowError", n)

\* the pulled node stays wired to the end of the temporary chain
DisconnectSelf_skipped(c, n) == c

\* self.signals.disconnect_run(): nothing upstream may trigger the pulled node
DisconnectSelf(c, n) == disconnect_run(c, n)

\* a finally branch that forgets to make the broken connections again
FinallyRestore_no_reconnect(st, tree, original, pairs, iter) ==
    [RestoreLabels(st, tree, original) EXCEPT !.conn =
        DisconnectRunOfAll(st.conn, SeqOf(tree, iter), 1).conn]

\* a finally branch that ends the exception it was entered with
FinallyRestore_swallows(st, tree, original, pairs, iter) ==
    [RestoreLabels(st, tree, original) EXCEPT
        !.conn = ConnectPairs(DisconnectRunOfAll(st.conn, SeqOf(tree, iter), 1).conn,
                              pairs, 1),
        !.status = "ok", !.raiser = None]

\* the finally branch of run_data_tree: labels back, temporary connections
\* dropped, the broken connections made again; an exception stays raised
FinallyRestore(st, tree, original, pairs, iter) ==
    [RestoreLabels(st, tree, original) EXCEPT !.conn =
        ConnectPairs(DisconnectRunOfAll(st.conn, SeqOf(tree, iter), 1).conn, pairs, 1)]

RECURSIVE NodeRun(_, _, _, _, _)
RECURSIVE RunDataTree(_, _, _, _)
RECURSIVE EmitRan(_, _, _, _, _)

\* a finish that never fires ran
Finish_never_emits(st, n, val, emit, iter) ==
    [st EXCEPT !.outVal[n] = val, !.running[n] = FALSE, !.failed[n] = FALSE]

\* a finish that fires ran before the output is committed
Finish_emits_first(st, n, val, emit, iter) ==
    LET pushed == IF emit THEN EmitRan(st, n, st.conn[<<n, "ran">>], 1, iter) ELSE st
    IN  [pushed EXCEPT !.outVal[n] = val, !.running[n] = FALSE, !.failed[n] = FALSE]

\* what the call did besides computing, in order: a finish, save, ran, load
\* or delete of a node
Event(st, what, n) == [st EXCEPT !.events = Append(@, <<what, n>>)]

\* a flag as the storage keeps it, and bool() of what the storage gives back
Stored(flag) == IF flag THEN 1 ELSE 0
Bool(x) == x # 0

\* Node.to_storage: label, flags, and a group for every data channel
to_storage(st, n) ==
    [label |-> st.label[n],
     running |-> Stored(st.running[n]),
     failed |-> Stored(st.failed[n]),
     save_after_run |-> Stored(st.save_after_run[n]),
     inputs |-> [x |-> st.inVal[n]],
     outputs |-> [result |-> st.outVal[n]]]

\* Node.save
Save(st, n) == Event([st EXCEPT !.saved[n] = <<to_storage(st, n)>>], "save", n)

\* a finish that saves after ran was fired
Finish_saves_last(st, n, val, emit, iter) ==
    LET done == Event([st EXCEPT !.outVal[n] = val, !.running[n] = FALSE,
                                 !.failed[n] = FALSE], "finish", n)
        pushed == IF emit
                  THEN EmitRan(Event(done, "ran", n), n, done.conn[<<n, "ran">>], 1, iter)
                  ELSE done
    IN  IF st.save_after_run[n] /\ pushed.status = "ok" THEN Save(pushed, n) ELSE pushed

\* Node._finish_run, then Node._finish_run_and_emit_ran when emit is set:
\* commit the output and clear running (Runnable._finish_run), save when
\* save_after_run is set, fire ran
Finish(st, n, val, emit, iter) ==
    LET done == Event([st EXCEPT !.outVal[n] = val, !.running[n] = FALSE,
                                 !.failed[n] = FALSE], "finish", n)
        kept == IF st.save_after_run[n] THEN Save(done, n) ELSE done
    IN  IF emit THEN EmitRan(Event(kept, "ran", n), n, kept.conn[<<n, "ran">>], 1, iter)
        ELSE kept

\* Node._finish_run when Runnable._finish_run raises exc: the node is marked
\* failed, the save of the finally clause is made, ran is not fired
FinishRaises(st, n, exc) ==
    LET marked == Event([st EXCEPT !.running[n] = FALSE, !.failed[n] = TRUE],
                        "finish", n)
        kept == IF st.save_after_run[n] THEN Save(marked, n) ELSE marked
    IN  Raise(kept, exc, n)

\* a from_storage that leaves save_after_run as it is
from_storage_keeps_flag(st, n, content) ==
    [st EXCEPT !.running[n] = Bool(content.running),
               !.failed[n] = Bool(content.failed),
               !.inVal[n] = content.inputs.x,
               !.outVal[n] = content.outputs.result]

\* Node.from_storage
from_storage(st, n, content) ==
    [st EXCEPT !.running[n] = Bool(content.running),
               !.failed[n] = Bool(content.failed),
               !.save_after_run[n] = Bool(content.save_after_run),
               !.inVal[n] = content.inputs.x,
               !.outVal[n] = content.outputs.result]

\* Node.load
Load(st, n) == Event(from_storage(st, n, st.saved[n][1]), "load", n)

\* an accumulating input that keeps what it has noted when it fires
Accumulate_keeps(st, t, sender) ==
    LET got == st.received[t] \cup {sender}
    IN  [st |-> [st EXCEPT !.received[t] = got],
         fire |-> Elems(st.conn[<<t, "accumulate_and_run">>]) \subseteq got]

\* AccumulatingInputSignal.__call__: note the sender; once every connected
\* sender is noted, forget them all and fire
Accumulate(st, t, sender) ==
    LET got == st.received[t] \cup {sender}
        full == Elems(st.conn[<<t, "accumulate_and_run">>]) \subseteq got
    IN  [st |-> [st EXCEPT !.received[t] = IF full THEN {} ELSE got],
         fire |-> full]

\* InputSignal.__call__ of the input channel ch: run fires on every signal,
\* accumulate_and_run when its round is complete
Signalled(st, ch, sender) ==
    IF ch[2] = "accumulate_and_run" THEN Accumulate(st, ch[1], sender)
    ELSE [st |-> st, fire |-> TRUE]

\* a signal output that calls its connections from the last to the first
RECURSIVE EmitRan_last_first(_, _, _, _, _)
EmitRan_last_first(st, src, targets, i, iter) ==
    IF i > Len(targets) THEN st
    ELSE LET ch == targets[Len(targets) + 1 - i]
             sent == [st EXCEPT !.sigs = Append(@, <<<<src, "ran">>, ch>>)]
             got == Signalled(sent, ch, <<src, "ran">>)
             r == IF got.fire THEN NodeRun(got.st, ch[1], RunFlags, NoKw, iter)
                  ELSE got.st
         IN  IF r.status # "ok" THEN r
             ELSE EmitRan_last_first(r, src, targets, i + 1, iter)

\* SignalOutput.__call__: call every connected signal input, in connection
\* order; the callback of an input that fires is the run of its node
EmitRan(st, src, targets, i, iter) ==
    IF i > Len(targets) THEN st
    ELSE LET sent == [st EXCEPT !.sigs = Append(@, <<<<src, "ran">>, targets[i]>>)]
             got == Signalled(sent, targets[i], <<src, "ran">>)
             r == IF got.fire THEN NodeRun(got.st, targets[i][1], RunFlags, NoKw, iter)
                  ELSE got.st
         IN  IF r.status # "ok" THEN r ELSE EmitRan(r, src, targets, i + 1, iter)

\* Runnable.run and Runnable._run, after the steps of Node.run
RunnableRun(st, n, f, iter) ==
    IF f.check /\ ~ready(st, n) THEN Raise(st, "ReadinessError", n)
    ELSE IF executor[n] /\ ~f.local
    THEN [st EXCEPT !.running[n] = TRUE,
                    !.future[n] = [state |-> "pending", arg |-> st.inVal[n],
                                   emit |-> f.emit, result |-> NotData,
                                   exc |-> "ok"]]
    ELSE LET out == on_run(n, st.inVal[n])
             started == [st EXCEPT !.log = Append(@, n)]
         IN  IF out.exc # "ok"
             THEN Raise([started EXCEPT !.running[n] = FALSE, !.failed[n] = TRUE],
                        out.exc, n)
             ELSE IF out.val \notin Values
             THEN Raise(started, "OutOfRange", n)
             ELSE Finish(started, n, out.val, f.emit, iter)

\* a run that fetches before it applies the keyword arguments
NodeRun_fetch_first(st, n, f, kw, iter) ==
    LET s1 == IF f.fetch THEN Fetch(st, n) ELSE st
        s2 == set_input_values(s1, n, kw)
        s3 == IF f.tree THEN RunDataTree(s2, n, f.parents, iter) ELSE s2
    IN  IF s3.status # "ok" THEN s3 ELSE RunnableRun(s3, n, f, iter)

\* a run that never asks for the readiness check
NodeRun_unchecked(st, n, f, kw, iter) ==
    LET s1 == set_input_values(st, n, kw)
        s2 == IF f.tree THEN RunDataTree(s1, n, f.parents, iter) ELSE s1
        s3 == IF f.fetch THEN Fetch(s2, n) ELSE s2
    IN  IF s2.status # "ok" THEN s2
        ELSE RunnableRun(s3, n, [f EXCEPT !.check = FALSE], iter)

\* Node.run
NodeRun(st, n, f, kw, iter) ==
    LET s1 == set_input_values(st, n, kw)
        s2 == IF f.tree THEN RunDataTree(s1, n, f.parents, iter) ELSE s1
        s3 == IF f.fetch THEN Fetch(s2, n) ELSE s2
    IN  IF s2.status # "ok" THEN s2 ELSE RunnableRun(s3, n, f, iter)

\* Node.run_data_tree
RunDataTree(st, n, parents, iter) ==
    LET up == IF parents /\ parent[n] # None
              THEN RunDataTree(st, parent[n], TRUE, iter) ELSE st
        s0 == IF parents /\ parent[n] # None THEN Fetch(up, parent[n]) ELSE up
        tree == get_nodes_in_data_tree(s0, n)
        original == s0.label
        s1 == Relabel(s0, tree)
        dag == set_run_connections_according_to_linear_dag(s1, tree, iter)
        s2 == [s1 EXCEPT !.conn = DisconnectSelf(dag.conn, n)]
        s3 == IF dag.starter # n THEN NodeRun(s2, dag.starter, RunFlags, NoKw, iter)
              ELSE s2
    IN  IF up.status # "ok" THEN up
        ELSE IF ExecutorInTree(tree) THEN Raise(s0, "ValueError", n)
        ELSE IF ~dag.ok
        THEN OnDagFailure([s1 EXCEPT !.conn = dag.conn], tree, original, n)
        ELSE FinallyRestore(s3, tree, original, dag.pairs, iter)

(***************************************************************************)
(* The graph and the operations of the user.                               *)
(***************************************************************************)
UserVals == {IntVal(1), Bad}
Overrides == {NoKw, IntVal(1)}

\* the orders in which the set of tree nodes may be iterated (a Python set):
\* one order and its reverse, so that any two nodes are met in both orders
IterOrders ==
    IF \E n \in Nodes : Len(conn[<<n, "ran">>]) > 1
    THEN {NodeSeq, [i \in 1..Len(NodeSeq) |-> NodeSeq[Len(NodeSeq) + 1 - i]]}
    ELSE {NodeSeq}

\* the data connections and the run connections a graph may be built with
DataEdges ==
    {e \in FnNodes \X FnNodes :
        \/ parent[e[1]] = parent[e[2]]
        \/ parent[e[2]] # None /\ parent[e[1]] = parent[parent[e[2]]]}
RunEdges == {e \in FnNodes \X FnNodes : e[1] # e[2]}

\* the sequences of at most k different members of a set
RECURSIVE SeqsUpTo(_, _)
SeqsUpTo(set, k) ==
    IF k = 0 THEN {<<>>}
    ELSE LET shorter == SeqsUpTo(set, k - 1)
         IN  shorter \cup {Append(q, e) : q \in {x \in shorter : Len(x) = k - 1},
                                          e \in set}

Distinct(q) == \A i, j \in 1..Len(q) : i # j => q[i] # q[j]

\* d.inputs.x = s, for each (s, d) of the sequence in turn
RECURSIVE ConnectDataAll(_, _, _)
ConnectDataAll(c, q, i) ==
    IF i > Len(q) THEN c
    ELSE ConnectDataAll(Connect(c, <<q[i][2], "x">>, <<q[i][1], "result">>), q, i + 1)

\* a > b, for each (a, b) of the sequence in turn
RECURSIVE ConnectRunAll(_, _, _)
ConnectRunAll(c, q, i) ==
    IF i > Len(q) THEN c
    ELSE ConnectRunAll(Connect(c, <<q[i][1], "ran">>, <<q[i][2], "run">>), q, i + 1)

\* no node triggers itself over a chain of ran > run connections
RECURSIVE ReachVia(_, _, _)
ReachVia(edges, frontier, seen) ==
    IF frontier \subseteq seen THEN seen
    ELSE ReachVia(edges, {e[2] : e \in {x \in edges : x[1] \in frontier}},
                  seen \cup frontier)
AcyclicRun(q) == \A e \in Elems(q) : e[1] \notin ReachVia(Elems(q), {e[2]}, {})

Idle == [op |-> "none", node |-> None, parents |-> FALSE, kw |-> NoKw,
         status |-> "ok", raiser |-> None, log |-> <<>>, sigs |-> <<>>,
         events |-> <<>>]

\* nothing is saved, no node saves after its runs, no backend is chosen
NoStorage ==
    /\ save_after_run = [n \in Nodes |-> FALSE]
    /\ saved = [n \in FnNodes |-> NoFile]
    /\ backend = [n \in Nodes \cup Composites |-> None]

\* The graph as constructed: all nodes at the top, or n3 inside the macro m,
\* or n1 and n3 inside it; n1 with x = 0, n2 with x = 0 or 1, n3 without
\* input data, wired by fewer than MaxSteps connections.
Init ==
    /\ label = [n \in Nodes |-> n]
    /\ \E inside \in {{}, {"n3"}, {"n1", "n3"}} :
        parent = [n \in Nodes |-> IF n \in inside THEN "m" ELSE None]
    /\ \E dq \in SeqsUpTo(DataEdges, MaxSteps - 1), rq \in SeqsUpTo(RunEdges, MaxSteps - 1) :
        /\ Len(dq) + Len(rq) < MaxSteps
        /\ Distinct(dq) /\ Distinct(rq) /\ AcyclicRun(rq)
        /\ conn = ConnectRunAll(ConnectDataAll([ch \in Channels |-> <<>>], dq, 1), rq, 1)
        /\ steps = Len(dq) + Len(rq)
    /\ \E v \in {IntVal(0), IntVal(1)} :
        inVal = [k \in FnNodes |-> CASE k = "n1" -> IntVal(0)
                                     [] k = "n2" -> v
                                     [] OTHER    -> NotData]
    /\ outVal = [k \in FnNodes |-> NotData]
    /\ running = [n \in Nodes |-> FALSE]
    /\ failed = [n \in Nodes |-> FALSE]
    /\ executor = [n \in Nodes |-> FALSE]
    /\ future = [n \in Nodes |-> NoFuture]
    /\ received = [n \in Nodes |-> {}]
    /\ thread = [n \in Nodes |-> "none"]
    /\ channels = [k \in FnNodes |-> Compatible]
    /\ starting = <<>>
    /\ io = BuildIO([label |-> label, parent |-> parent, conn |-> conn], channels)
    /\ registry = RegistryOf(parent)
    /\ maps = NoMaps
    /\ Apart
    /\ NoStorage
    /\ last = Idle

\* node.inputs.x = v
SetInput(n, v) ==
    /\ steps < MaxSteps
    /\ steps' = steps + 1
    /\ ~running[n]
    /\ inVal[n] # v
    /\ inVal' = [inVal EXCEPT ![n] = v]
    /\ last' = Idle
    /\ UNCHANGED <<label, parent, conn, outVal, running, failed, executor, future,
                   received, thread, composite, apart, storage>>

\* node.executor = True
SetExecutor(n) ==
    /\ steps < MaxSteps
    /\ steps' = steps + 1
    /\ ~executor[n]
    /\ executor' = [executor EXCEPT ![n] = TRUE]
    /\ last' = Idle
    /\ UNCHANGED <<label, parent, conn, inVal, outVal, running, failed, future,
                   received, thread, composite, apart, storage>>

\* the state after a call, and the record of the call
Recorded(r, op, n, parents, kw) ==
    /\ r.status # "OutOfRange"
    /\ label' = r.label
    /\ conn' = r.conn
    /\ inVal' = r.inVal
    /\ outVal' = r.outVal
    /\ running' = r.running
    /\ failed' = r.failed
    /\ future' = r.future
    /\ received' = r.received
    /\ save_after_run' = r.save_after_run
    /\ saved' = r.saved
    /\ last' = [op |-> op, node |-> n, parents |-> parents, kw |-> kw,
                status |-> r.status, raiser |-> r.raiser, log |-> r.log,
                sigs |-> r.sigs, events |-> r.events]

\* the same, for a call that leaves the composite as it is
Record(r, op, n, parents, kw) ==
    /\ Recorded(r, op, n, parents, kw)
    /\ UNCHANGED <<parent, executor, composite, apart, backend>>

\* a call of the user: it takes one step of the budget
Commit(r, op, n, parents, kw) ==
    /\ steps < MaxSteps
    /\ steps' = steps + 1
    /\ Record(r, op, n, parents, kw)
    /\ UNCHANGED thread

\* node.run(**kwargs)
Run(n, kw) ==
    \E iter \in IterOrders :
        Commit(NodeRun(Cur, n, RunFlags, kw, iter), "run", n, FALSE, kw)

\* Node.pull
PullFlags(parents) ==
    [tree |-> TRUE, parents |-> parents, fetch |-> TRUE, check |-> TRUE,
     local |-> FALSE, emit |-> FALSE]

Pull(n, parents, kw) ==
    /\ parents => parent[n] # None
    /\ \E iter \in IterOrders :
        Commit(NodeRun(Cur, n, PullFlags(parents), kw, iter), "pull", n, parents, kw)

\* Node.execute
ExecuteFlags ==
    [tree |-> FALSE, parents |-> FALSE, fetch |-> FALSE, check |-> FALSE,
     local |-> TRUE, emit |-> FALSE]

\* an execute that is a plain run
Execute_as_run(n, kw) ==
    \E iter \in IterOrders :
        Commit(NodeRun(Cur, n, RunFlags, kw, iter), "execute", n, FALSE, kw)

Execute(n, kw) ==
    \E iter \in IterOrders :
        Commit(NodeRun(Cur, n, ExecuteFlags, kw, iter), "execute", n, FALSE, kw)

\* Node.__call__: pull(run_parent_trees_too=True, **kwargs)
Call(n, kw) ==
    \E iter \in IterOrders :
        Commit(NodeRun(Cur, n, PullFlags(TRUE), kw, iter), "call", n, TRUE, kw)

\* the future of n after the computation ended with out: Future.result()
\* returns result when the state is done and raises exc when it is failed
Resolved(st, n, out) ==
    [st EXCEPT !.future[n].state = IF out.exc = "ok" THEN "done" ELSE "failed",
               !.future[n].result = out.val,
               !.future[n].exc = out.exc]

\* a callback that, when the computation failed, leaves the node as it is
FutureDone_failure_unnoticed(n) ==
    /\ future[n].state = "pending"
    /\ \E iter \in IterOrders :
        LET out == on_run(n, future[n].arg)
            st == Resolved(Cur, n, out)
        IN  /\ out.val \in Values
            /\ IF out.exc # "ok"
               THEN Record(Raise(st, out.exc, n), "callback", n, FALSE, NoKw)
               ELSE Record(Finish(st, n, out.val, future[n].emit, iter),
                           "callback", n, FALSE, NoKw)
            /\ UNCHANGED <<steps, thread>>

\* the executor finishes the submitted computation and the callback of the
\* future runs: commit the result, clear running, fire ran when asked to;
\* not a step of the user, so it takes nothing of the budget
FutureDone(n) ==
    /\ future[n].state = "pending"
    /\ \E iter \in IterOrders :
        LET out == on_run(n, future[n].arg)
            st == Resolved(Cur, n, out)
        IN  /\ out.val \in Values
            /\ IF out.exc # "ok"
               THEN Record(FinishRaises(st, n, out.exc), "callback", n, FALSE, NoKw)
               ELSE Record(Finish(st, n, out.val, future[n].emit, iter),
                           "callback", n, FALSE, NoKw)
            /\ UNCHANGED <<steps, thread>>

Next ==
    \/ \E n \in FnNodes, v \in UserVals : SetInput(n, v)
    \/ \E n \in Nodes : SetExecutor(n)
    \/ \E n \in FnNodes, kw \in Overrides : Run(n, kw)
    \/ \E n \in FnNodes, p \in BOOLEAN, kw \in Overrides : Pull(n, p, kw)
    \/ \E n \in FnNodes, kw \in Overrides : Execute(n, kw)
    \/ \E n \in FnNodes, kw \in Overrides : Call(n, kw)
    \/ \E n \in FnNodes : FutureDone(n)

Spec == Init /\ [][Next]_vars

(***************************************************************************)
(* The signal graph on its own: three standalone nodes that all hold input *)
(* data, wired by at most MaxEdges signal connections of either kind, each *)
(* from a node to a later one, and run by the user.                        *)
(***************************************************************************)
MaxEdges == 3

SignalEdges ==
    {e \in FnNodes \X FnNodes \X {"run", "accumulate_and_run"} : Rank(e[1]) < Rank(e[2])}

\* a > b, or b.signals.input.accumulate_and_run << a
RECURSIVE ConnectSignalAll(_, _, _)
ConnectSignalAll(c, q, i) ==
    IF i > Len(q) THEN c
    ELSE ConnectSignalAll(Connect(c, <<q[i][1], "ran">>, <<q[i][2], q[i][3]>>), q, i + 1)

SignalInit ==
    /\ label = [n \in Nodes |-> n]
    /\ parent = [n \in Nodes |-> None]
    /\ \E sq \in SeqsUpTo(SignalEdges, MaxEdges) :
        /\ Distinct(sq)
        /\ conn = ConnectSignalAll([ch \in Channels |-> <<>>], sq, 1)
    /\ \E v \in {IntVal(0), IntVal(1)} :
        inVal = [k \in FnNodes |-> CASE k = "n1" -> IntVal(0)
                                     [] k = "n2" -> v
                                     [] OTHER    -> IntVal(1)]
    /\ outVal = [k \in FnNodes |-> NotData]
    /\ running = [n \in Nodes |-> FALSE]
    /\ failed = [n \in Nodes |-> FALSE]
    /\ executor = [n \in Nodes |-> FALSE]
    /\ future = [n \in Nodes |-> NoFuture]
    /\ received = [n \in Nodes |-> {}]
    /\ thread = [n \in Nodes |-> "none"]
    /\ channels = [k \in FnNodes |-> Compatible]
    /\ starting = <<>>
    /\ io = BuildIO([label |-> label, parent |-> parent, conn |-> conn], channels)
    /\ registry = RegistryOf(parent)
    /\ maps = NoMaps
    /\ Apart
    /\ NoStorage
    /\ last = Idle
    /\ steps = 0

SignalNext == \E n \in FnNodes, kw \in Overrides : Run(n, kw)

SignalSpec == SignalInit /\ [][SignalNext]_vars

(***************************************************************************)
(* Two completion callbacks at once.  n1 and n2 have executors, the        *)
(* accumulate_and_run input of n3 is connected to ran of both, and each    *)
(* future is served by a thread of its own.  The statements of a callback  *)
(* are steps that the two threads take in any order: commit the output,    *)
(* note the sender in the accumulating input, compare what is noted with   *)
(* the connections, and reset and run the consumer.                        *)
(***************************************************************************)
Consumer == "n3"
Producers == {"n1", "n2"}

RaceInit ==
    /\ label = [n \in Nodes |-> n]
    /\ parent = [n \in Nodes |-> None]
    /\ \E sq \in {<<<<"n1", Consumer, "accumulate_and_run">>,
                     <<"n2", Consumer, "accumulate_and_run">>>>,
                   <<<<"n2", Consumer, "accumulate_and_run">>,
                     <<"n1", Consumer, "accumulate_and_run">>>>},
          dq \in SeqsUpTo(Producers \X {Consumer}, 1) :
        conn = ConnectSignalAll(ConnectDataAll([ch \in Channels |-> <<>>], dq, 1), sq, 1)
    /\ \E v \in {IntVal(0), IntVal(1)} :
        inVal = [k \in FnNodes |-> CASE k = "n1" -> IntVal(0)
                                     [] k = "n2" -> v
                                     [] OTHER    -> IntVal(1)]
    /\ outVal = [k \in FnNodes |-> NotData]
    /\ running = [n \in Nodes |-> FALSE]
    /\ failed = [n \in Nodes |-> FALSE]
    /\ executor = [n \in Nodes |-> n \in Producers]
    /\ future = [n \in Nodes |-> NoFuture]
    /\ received = [n \in Nodes |-> {}]
    /\ thread = [n \in Nodes |-> "none"]
    /\ channels = [k \in FnNodes |-> Compatible]
    /\ starting = <<>>
    /\ io = BuildIO([label |-> label, parent |-> parent, conn |-> conn], channels)
    /\ registry = RegistryOf(parent)
    /\ maps = NoMaps
    /\ Apart
    /\ NoStorage
    /\ last = Idle
    /\ steps = 0

\* a step of a callback that is not a call
Step(op, k) == [Idle EXCEPT !.op = op, !.node = k]

\* Runnable._finish_run in the thread of the future of k: take the result,
\* commit it and clear running, or mark the node failed
CallbackFinish(k) ==
    /\ future[k].state = "pending"
    /\ thread[k] = "none"
    /\ LET out == on_run(k, future[k].arg)
           st == Resolved(Cur, k, out)
       IN  /\ out.val \in Values
           /\ IF out.exc # "ok"
              THEN /\ Record(FinishRaises(st, k, out.exc), "finish", k, FALSE, NoKw)
                   /\ UNCHANGED thread
              ELSE /\ Record(Finish(st, k, out.val, FALSE, NodeSeq),
                             "finish", k, FALSE, NoKw)
                   /\ thread' = [thread EXCEPT ![k] =
                          IF future[k].emit /\ conn[<<k, "ran">>] # <<>>
                          THEN "emitting" ELSE "none"]
    /\ UNCHANGED steps

\* ran of k calls the accumulating input: received_signals.update(...)
CallbackNote(k) ==
    /\ thread[k] = "emitting"
    /\ received' = [received EXCEPT ![Consumer] = @ \cup {<<k, "ran">>}]
    /\ thread' = [thread EXCEPT ![k] = "noted"]
    /\ last' = Step("note", k)
    /\ UNCHANGED <<label, parent, conn, inVal, outVal, running, failed, executor,
                   future, composite, apart, storage, steps>>

\* the input compares its connections with what it has noted
CallbackCheck(k) ==
    /\ thread[k] = "noted"
    /\ thread' = [thread EXCEPT ![k] =
           IF Elems(conn[<<Consumer, "accumulate_and_run">>]) \subseteq received[Consumer]
           THEN "full" ELSE "none"]
    /\ last' = Step("check", k)
    /\ UNCHANGED <<label, parent, conn, inVal, outVal, running, failed, executor,
                   future, received, composite, apart, storage, steps>>

\* the input found its round complete: reset, then the callback, which is
\* the run of the consumer
CallbackFire(k) ==
    /\ thread[k] = "full"
    /\ Record(NodeRun([Cur EXCEPT !.received[Consumer] = {}], Consumer, RunFlags,
                      NoKw, NodeSeq), "fire", k, FALSE, NoKw)
    /\ thread' = [thread EXCEPT ![k] = "none"]
    /\ UNCHANGED steps

RaceNext ==
    \/ \E n \in Producers, kw \in Overrides : Run(n, kw)
    \/ \E k \in Producers : CallbackFinish(k)
    \/ \E k \in Producers : CallbackNote(k)
    \/ \E k \in Producers : CallbackCheck(k)
    \/ \E k \in Producers : CallbackFire(k)

RaceSpec == RaceInit /\ [][RaceNext]_vars

(***************************************************************************)
(* Replacing a child of the macro.  The graph a replacement works on is    *)
(* the record g of label, parent, conn, starting and io, with the status   *)
(* of the call.                                                            *)
(***************************************************************************)
MaxWires == 2       \* connections between the nodes
MaxReplaces == 2    \* replacements attempted

\* the connections the graph may be built with: data from any node to any
\* other, ran to the run of a later node
WireData == {e \in FnNodes \X FnNodes : e[1] # e[2]}
WireRun == {e \in FnNodes \X FnNodes : Rank(e[1]) < Rank(e[2])}

Graph == [label |-> label, parent |-> parent, conn |-> conn, starting |-> starting,
          io |-> io, status |-> "ok"]

ChannelSeq == <<"x", "result", "run", "accumulate_and_run", "ran">>

\* a validation that does not look at the connections of the replacement
Invalid_ignores_connections(g, old, new) ==
    \/ g.parent[old] # "m"
    \/ g.parent[new] # None

\* the checks of replace_child: the replaced node is a child of the macro,
\* the replacement has no parent and no connection
Invalid(g, old, new) ==
    \/ g.parent[old] # "m"
    \/ g.parent[new] # None
    \/ Connected(g.conn, new)

\* a registration that puts the replacement of a starting node last
Register_appends_starter(g, old, new) ==
    [g EXCEPT !.parent[old] = None, !.parent[new] = "m",
              !.label[new] = g.label[old],
              !.starting = IF old \in Elems(g.starting)
                           THEN Append(Remove(g.starting, old), new)
                           ELSE g.starting]

\* (b), (c): old leaves the registry, new enters it under the label of old
\* and takes the place of old among the starting nodes
Register(g, old, new) ==
    [g EXCEPT !.parent[old] = None, !.parent[new] = "m",
              !.label[new] = g.label[old],
              !.starting = [i \in 1..Len(g.starting) |->
                               IF g.starting[i] = old THEN new ELSE g.starting[i]]]

\* (d): channel by channel, connect new to the partners old has on the channel
\* of the same label and disconnect old; a label new does not have ends it
RECURSIVE CopyConnections(_, _, _, _)
CopyConnections(g, old, new, i) ==
    IF i > Len(ChannelSeq) THEN g
    ELSE LET l == ChannelSeq[i]
             partners == g.conn[<<old, l>>]
             copied == ConnectPairs(g.conn,
                           [j \in 1..Len(partners) |-> <<<<new, l>>, partners[j]>>], 1)
         IN  IF partners = <<>> THEN CopyConnections(g, old, new, i + 1)
             ELSE IF l \in Compatible /\ l \notin channels[new]
             THEN [g EXCEPT !.status = "AttributeError"]
             ELSE CopyConnections([g EXCEPT !.conn = DisconnectAll(copied, <<old, l>>)],
                                  old, new, i + 1)

\* (e): derive the IO of the macro from its children anew; every channel of
\* the former IO that is connected outside must be there again, under its
\* name, and keeps these connections
RebuildIO(g) ==
    LET built == BuildIO(g, channels)
        kept == {e \in g.io : e.ext # <<>>}
    IN  IF \E e \in kept : \A b \in built : b.name # e.name
        THEN [g EXCEPT !.status = "AttributeError"]
        ELSE [g EXCEPT !.io = {[b EXCEPT !.ext =
                                   IF \E e \in kept : e.name = b.name
                                   THEN (CHOOSE e \in kept : e.name = b.name).ext
                                   ELSE <<>>] : b \in built}]

\* a reversion that leaves the replacement with the label it was given
Revert_keeps_label(snapshot, g) ==
    [snapshot EXCEPT !.label = g.label, !.status = g.status]

\* (f): back to the graph as it was snapshotted, keeping how the call ended
Revert(snapshot, g) == [snapshot EXCEPT !.status = g.status]

\* Composite.replace_child with Macro's rebuild of its IO
replace_child(g, old, new) ==
    LET registered == Register(g, old, new)
        copied == CopyConnections(registered, old, new, 1)
        rebuilt == RebuildIO(copied)
    IN  IF Invalid(g, old, new) THEN [g EXCEPT !.status = "ValueError"]
        ELSE IF copied.status # "ok" THEN Revert(g, copied)
        ELSE IF rebuilt.status # "ok" THEN Revert(g, rebuilt)
        ELSE rebuilt

\* the graph after a replacement, and the record of the call
ReplacedBy(op, g, old, new) ==
    /\ steps < MaxReplaces
    /\ steps' = steps + 1
    /\ label' = g.label
    /\ parent' = g.parent
    /\ conn' = g.conn
    /\ starting' = g.starting
    /\ io' = g.io
    /\ registry' = RegistryOf(g.parent)
    /\ last' = [op |-> op, node |-> old, other |-> new, status |-> g.status]
    /\ UNCHANGED <<inVal, outVal, running, failed, executor, future, received,
                   thread, channels, apart, maps, storage>>

Replaced(g, old, new) == ReplacedBy("replace", g, old, new)

\* macro.replace(old, new)
Replace(old, new) ==
    /\ old # new
    /\ Replaced(replace_child(Graph, old, new), old, new)

\* a replace_with that hands its arguments over in the wrong order
ReplaceWith_swapped(n, other) ==
    /\ n # other
    /\ ReplacedBy("replace_with", replace_child(Graph, other, n), n, other)

\* Node.replace_with
ReplaceWith(n, other) ==
    /\ n # other
    /\ IF parent[n] # None
       THEN ReplacedBy("replace_with", replace_child(Graph, n, other), n, other)
       ELSE /\ steps < MaxReplaces
            /\ steps' = steps + 1
            /\ last' = [op |-> "replace_with", node |-> n, other |-> other,
                        status |-> "warning"]
            /\ UNCHANGED <<label, parent, conn, inVal, outVal, running, failed,
                           executor, future, received, thread, composite, apart, storage>>

\* the macro with n1 and perhaps more as its children; n3 may have other
\* labels on its data channels; at most MaxWires connections between the
\* nodes; at most two starting nodes; at most one channel of the macro
\* connected outside
ReplaceInit ==
    /\ label = [n \in Nodes |-> n]
    /\ \E p2, p3 \in {None, "m"} :
        parent = [n \in Nodes |-> CASE n = "n1" -> "m" [] n = "n2" -> p2
                                    [] n = "n3" -> p3 [] OTHER -> None]
    /\ \E c3 \in {Compatible, {"not_x", "result"}, {"x", "changed_output_label"}} :
        channels = [k \in FnNodes |-> IF k = "n3" THEN c3 ELSE Compatible]
    /\ \E dq \in SeqsUpTo(WireData, MaxWires), rq \in SeqsUpTo(WireRun, MaxWires) :
        /\ Len(dq) + Len(rq) <= MaxWires
        /\ Distinct(dq) /\ Distinct(rq)
        /\ \A e \in Elems(dq) : "result" \in channels[e[1]] /\ "x" \in channels[e[2]]
        /\ conn = ConnectRunAll(ConnectDataAll([ch \in Channels |-> <<>>], dq, 1), rq, 1)
    /\ \E sq \in SeqsUpTo(Children("m"), 2) : Distinct(sq) /\ starting = sq
    /\ registry = RegistryOf(parent)
    /\ maps = NoMaps
    /\ Apart
    /\ NoStorage
    /\ LET built == BuildIO([label |-> label, parent |-> parent, conn |-> conn], channels)
       IN  \E outside \in {{}} \cup {{b} : b \in built} :
              io = {[b EXCEPT !.ext =
                        IF b \notin outside THEN <<>>
                        ELSE IF b.name[2] \in InputLabels
                        THEN <<"upstream.outputs.result">>
                        ELSE <<"downstream.inputs.x">>] : b \in built}
    /\ inVal = [k \in FnNodes |-> IntVal(0)]
    /\ outVal = [k \in FnNodes |-> NotData]
    /\ running = [n \in Nodes |-> FALSE]
    /\ failed = [n \in Nodes |-> FALSE]
    /\ executor = [n \in Nodes |-> FALSE]
    /\ future = [n \in Nodes |-> NoFuture]
    /\ received = [n \in Nodes |-> {}]
    /\ thread = [n \in Nodes |-> "none"]
    /\ last = Idle
    /\ steps = 0

ReplaceNext ==
    \/ \E old, new \in FnNodes : Replace(old, new)
    \/ \E n, other \in FnNodes : ReplaceWith(n, other)

ReplaceSpec == ReplaceInit /\ [][ReplaceNext]_vars

(***************************************************************************)
(* Adding and removing children, and assigning the parent of a node.       *)
(***************************************************************************)
MaxChanges == 2

\* the connections of the chain n1, n2, n3
ChainEdges == {<<"n1", "n2">>, <<"n2", "n3">>}

\* what a change of the family of a composite leaves alone
Unrelated == <<inVal, outVal, running, failed, executor, future, received, thread,
               channels, io, maps, storage, apart>>

Changed(op, c, k, status) ==
    /\ steps < MaxChanges
    /\ steps' = steps + 1
    /\ last' = [op |-> op, node |-> k, other |-> c, status |-> status]
    /\ UNCHANGED Unrelated

\* the node has a parent that is not the composite c
HasOtherParent(c, k) == parent[k] # None /\ parent[k] # c

\* another child of c goes by the label of k
LabelTaken(c, k) == \E j \in registry[c] \ {k} : label[j] = label[k]

\* an add_child that takes a node away from its parent
add_child_steals(c, k) ==
    IF LabelTaken(c, k)
    THEN [status |-> "AttributeError", parent |-> parent, registry |-> registry]
    ELSE [status |-> "ok", parent |-> [parent EXCEPT ![k] = c],
          registry |-> [registry EXCEPT ![c] = @ \cup {k}]]

\* Composite.add_child
add_child(c, k) ==
    IF HasOtherParent(c, k)
    THEN [status |-> "ValueError", parent |-> parent, registry |-> registry]
    ELSE IF LabelTaken(c, k)
    THEN [status |-> "AttributeError", parent |-> parent, registry |-> registry]
    ELSE [status |-> "ok", parent |-> [parent EXCEPT ![k] = c],
          registry |-> [registry EXCEPT ![c] = @ \cup {k}]]

\* composite.add(node)
AddChild(c, k) ==
    LET r == add_child(c, k)
    IN  /\ parent' = r.parent
        /\ registry' = r.registry
        /\ Changed("add", c, k, r.status)
        /\ UNCHANGED <<label, conn, starting>>

\* every connection of the node k, data and signal, dropped
RECURSIVE Disconnect(_, _, _)
Disconnect(c, k, i) ==
    IF i > Len(ChannelSeq) THEN c
    ELSE Disconnect(DisconnectAll(c, <<k, ChannelSeq[i]>>), k, i + 1)

\* a remove_child that leaves the connections of the child
remove_child_keeps_connections(c, k) ==
    [conn |-> conn,
     starting |-> IF c = "m" THEN Remove(starting, k) ELSE starting,
     parent |-> [parent EXCEPT ![k] = None],
     registry |-> [registry EXCEPT ![c] = @ \ {k}]]

\* Composite.remove_child, for a registered child
remove_child(c, k) ==
    [conn |-> Disconnect(conn, k, 1),
     starting |-> IF c = "m" THEN Remove(starting, k) ELSE starting,
     parent |-> [parent EXCEPT ![k] = None],
     registry |-> [registry EXCEPT ![c] = @ \ {k}]]

\* composite.remove(node)
RemoveChild(c, k) ==
    /\ k \in registry[c]
    /\ LET r == remove_child(c, k)
       IN  /\ conn' = r.conn
           /\ starting' = r.starting
           /\ parent' = r.parent
           /\ registry' = r.registry
    /\ Changed("remove", c, k, "ok")
    /\ UNCHANGED label

\* Semantics.parent, the setter: node.parent = p, for a composite p or None
SetParent(k, p) ==
    /\ parent[k] # p
    /\ parent' = [parent EXCEPT ![k] = p]
    /\ Changed("set_parent", p, k, "ok")
    /\ UNCHANGED <<label, conn, starting, registry>>

\* The macro with its children and parent-less nodes, the other composite
\* without children yet; n3 may go by the label of n1; at most MaxWires
\* connections along the chain.
ChildInit ==
    /\ \E l3 \in {"n1", "n3"} : label = [n \in Nodes |-> IF n = "n3" THEN l3 ELSE n]
    /\ \E par \in [FnNodes -> {None, "m"}] :
        /\ parent = [n \in Nodes |-> IF n \in FnNodes THEN par[n] ELSE None]
        /\ \A c \in Composites, j, k \in FnNodes :
              (par[j] = c /\ par[k] = c /\ j # k) => label[j] # label[k]
    /\ \E dq \in SeqsUpTo(ChainEdges, MaxWires), rq \in SeqsUpTo(ChainEdges, MaxWires) :
        /\ Len(dq) + Len(rq) <= MaxWires
        /\ Distinct(dq) /\ Distinct(rq)
        /\ conn = ConnectRunAll(ConnectDataAll([ch \in Channels |-> <<>>], dq, 1), rq, 1)
    /\ \E sq \in SeqsUpTo(Children("m"), 1) : starting = sq
    /\ channels = [k \in FnNodes |-> Compatible]
    /\ io = BuildIO([label |-> label, parent |-> parent, conn |-> conn], channels)
    /\ registry = RegistryOf(parent)
    /\ maps = NoMaps
    /\ Apart
    /\ NoStorage
    /\ inVal = [k \in FnNodes |-> IntVal(0)]
    /\ outVal = [k \in FnNodes |-> NotData]
    /\ running = [n \in Nodes |-> FALSE]
    /\ failed = [n \in Nodes |-> FALSE]
    /\ executor = [n \in Nodes |-> FALSE]
    /\ future = [n \in Nodes |-> NoFuture]
    /\ received = [n \in Nodes |-> {}]
    /\ thread = [n \in Nodes |-> "none"]
    /\ last = Idle
    /\ steps = 0

ChildNext ==
    \/ \E c \in Composites, k \in FnNodes : AddChild(c, k)
    \/ \E c \in Composites, k \in FnNodes : RemoveChild(c, k)
    \/ \E k \in FnNodes, p \in {None} \cup Composites : SetParent(k, p)

ChildSpec == ChildInit /\ [][ChildNext]_vars

(***************************************************************************)
(* The IO of a macro with inputs_map and outputs_map: the macro m holds n1 *)
(* and n3, n1 feeding and triggering n3, and starts with n1; the maps      *)
(* rename or switch off channels of the two; the user sets inputs of the   *)
(* macro by name and runs it.                                              *)
(***************************************************************************)
\* the label a child channel has in the IO of the macro: the one of the map,
\* or child and channel joined
PublicName(g, mp, ch) ==
    IF mp[ch] = Absent THEN <<g.label[ch[1]], ch[2]>> ELSE <<"", mp[ch][2]>>

\* whether the child channel is part of the IO of the macro: not when the map
\* says None; when the map names it; else when it has no connection
Exposed(g, mp, ch) ==
    /\ g.parent[ch[1]] = "m"
    /\ mp[ch] # Disabled
    /\ mp[ch] = Absent => g.conn[ch] = <<>>

\* an IO that shows a renamed channel under its old label as well
MappedIO_keeps_original(g, mp, vals) ==
    {[name |-> PublicName(g, mp, ch), link |-> ch, ext |-> <<>>, value |-> vals[ch]] :
        ch \in {c \in FnNodes \X Compatible : Exposed(g, mp, c)}}
    \cup {[name |-> <<g.label[ch[1]], ch[2]>>, link |-> ch, ext |-> <<>>,
           value |-> vals[ch]] :
        ch \in {c \in FnNodes \X Compatible : Exposed(g, mp, c)}}

\* Macro._build_inputs and _build_outputs with the maps: name, linked child
\* channel, connections outside, value
MappedIO(g, mp, vals) ==
    {[name |-> PublicName(g, mp, ch), link |-> ch, ext |-> <<>>, value |-> vals[ch]] :
        ch \in {c \in FnNodes \X Compatible : Exposed(g, mp, c)}}

\* the values of the data channels of the children
ChildValues(in, out) ==
    [ch \in FnNodes \X Compatible |-> IF ch[2] = "x" THEN in[ch[1]] ELSE out[ch[1]]]

InputNames == {<<"n1", "x">>, <<"n3", "x">>, <<"", "my_input">>}

\* macro.inputs.<name> = v: the value goes to the input of the macro and on
\* to the child channel linked with it; without such an input the
\* assignment raises and nothing changes
SetMacroInput(nm, v) ==
    /\ steps < MaxSteps
    /\ steps' = steps + 1
    /\ LET hit == {e \in io : e.name = nm /\ e.link[2] = "x"}
       IN  IF hit = {}
           THEN /\ last' = [op |-> "set_macro_input", node |-> nm, other |-> v,
                            status |-> "AttributeError"]
                /\ UNCHANGED <<io, inVal>>
           ELSE /\ last' = [op |-> "set_macro_input", node |-> nm, other |-> v,
                            status |-> "ok"]
                /\ io' = {IF e \in hit THEN [e EXCEPT !.value = v] ELSE e : e \in io}
                /\ inVal' = [k \in FnNodes |->
                                IF \E e \in hit : e.link[1] = k THEN v ELSE inVal[k]]
    /\ UNCHANGED <<label, parent, conn, outVal, running, failed, executor, future,
                   received, thread, channels, apart, starting, registry, maps, storage>>

\* macro.run(): the starting node is run and pushes through the children;
\* then every output of the macro takes the value of the child channel linked
\* with it
RunMacro ==
    /\ steps < MaxSteps
    /\ steps' = steps + 1
    /\ starting # <<>>
    /\ \E iter \in IterOrders :
        /\ Recorded(NodeRun(Cur, starting[1], RunFlags, NoKw, iter), "run_macro", "m",
                    FALSE, NoKw)
        /\ io' = {IF e.link[2] = "result" /\ last'.status = "ok"
                  THEN [e EXCEPT !.value = outVal'[e.link[1]]] ELSE e : e \in io}
    /\ UNCHANGED <<parent, executor, backend, thread, channels, apart, starting, registry, maps>>

MapInit ==
    /\ label = [n \in Nodes |-> n]
    /\ parent = [n \in Nodes |-> IF n \in {"n1", "n3"} THEN "m" ELSE None]
    /\ conn = ConnectRunAll(ConnectDataAll([ch \in Channels |-> <<>>],
                                           <<(<<"n1", "n3">>)>>, 1),
                            <<(<<"n1", "n3">>)>>, 1)
    /\ starting = <<"n1">>
    /\ channels = [k \in FnNodes |-> Compatible]
    /\ registry = RegistryOf(parent)
    /\ \E i1 \in {Absent, Disabled, Renamed("my_input")},
          o1 \in {Absent, Renamed("intermediate")},
          o3 \in {Absent, Disabled, Renamed("my_output")} :
        maps = [ch \in FnNodes \X Compatible |->
                   CASE ch = <<"n1", "x">> -> i1
                     [] ch = <<"n1", "result">> -> o1
                     [] ch = <<"n3", "result">> -> o3
                     [] OTHER -> Absent]
    /\ Apart
    /\ \E v \in {NotData, IntVal(0)} : inVal = [k \in FnNodes |-> v]
    /\ outVal = [k \in FnNodes |-> NotData]
    /\ io = MappedIO([label |-> label, parent |-> parent, conn |-> conn], maps,
                     ChildValues(inVal, outVal))
    /\ running = [n \in Nodes |-> FALSE]
    /\ failed = [n \in Nodes |-> FALSE]
    /\ executor = [n \in Nodes |-> FALSE]
    /\ future = [n \in Nodes |-> NoFuture]
    /\ received = [n \in Nodes |-> {}]
    /\ thread = [n \in Nodes |-> "none"]
    /\ save_after_run = [n \in Nodes |-> FALSE]
    /\ saved = [n \in FnNodes |-> NoFile]
    /\ backend = [n \in Nodes \cup Composites |-> None]
    /\ last = Idle
    /\ steps = 0

MapNext ==
    \/ \E nm \in InputNames, v \in {IntVal(i) : i \in 0..1} \cup {Bad} : SetMacroInput(nm, v)
    \/ RunMacro

MapSpec == MapInit /\ [][MapNext]_vars

(***************************************************************************)
(* The storage backend: n1 inside or outside the macro m, m inside or      *)
(* outside the other composite, each with a backend of its own or none;    *)
(* backends are assigned and nodes adopted, removed and given parents.     *)
(***************************************************************************)
Backends == {None, "h5io", "tinybase"}
Owners == Nodes \cup Composites

\* the parent of a node or composite; the other composite has none
ParentOf(par, k) == IF k \in DOMAIN par THEN par[k] ELSE None

\* Semantics.root, Node.graph_root
RECURSIVE graph_root(_, _)
graph_root(par, k) ==
    IF ParentOf(par, k) = None THEN k ELSE graph_root(par, ParentOf(par, k))

\* a getter that reads the node's own field
storage_backend_own(b, par, k) == b[k]

\* Node.storage_backend, the getter
storage_backend(b, par, k) ==
    IF ParentOf(par, k) = None THEN b[k] ELSE b[graph_root(par, k)]

\* Node.storage_backend, the setter
set_storage_backend(b, par, k, new) ==
    IF new # None /\ ParentOf(par, k) # None
                  /\ new # storage_backend(b, par, graph_root(par, k))
    THEN [status |-> "ValueError", backend |-> b]
    ELSE [status |-> "ok", backend |-> [b EXCEPT ![k] = new]]

\* node.storage_backend = new
SetBackend(k, new) ==
    /\ steps < MaxChanges
    /\ steps' = steps + 1
    /\ LET r == set_storage_backend(backend, parent, k, new)
       IN  /\ backend' = r.backend
           /\ last' = [op |-> "backend", node |-> k, other |-> new, status |-> r.status]
    /\ UNCHANGED <<label, parent, conn, inVal, outVal, running, failed, executor, future,
                   received, thread, composite, apart, save_after_run, saved>>

\* macro.parent = p
SetMacroParent(p) ==
    /\ SetParent("m", p)
    /\ p \in {None, "other"}

BackendInit ==
    /\ label = [n \in Nodes |-> n]
    /\ \E p1 \in {None, "m"}, pm \in {None, "other"} :
        parent = [n \in Nodes |-> CASE n = "n1" -> p1 [] n = "m" -> pm [] OTHER -> None]
    /\ conn = [ch \in Channels |-> <<>>]
    /\ starting = <<>>
    /\ channels = [k \in FnNodes |-> Compatible]
    /\ io = BuildIO([label |-> label, parent |-> parent, conn |-> conn], channels)
    /\ registry = RegistryOf(parent)
    /\ maps = NoMaps
    /\ Apart
    /\ save_after_run = [n \in Nodes |-> FALSE]
    /\ saved = [n \in FnNodes |-> NoFile]
    /\ \E b1, bm, bo \in Backends :
        backend = [k \in Owners |-> CASE k = "n1" -> b1 [] k = "m" -> bm
                                       [] k = "other" -> bo [] OTHER -> None]
    /\ inVal = [k \in FnNodes |-> IntVal(0)]
    /\ outVal = [k \in FnNodes |-> NotData]
    /\ running = [n \in Nodes |-> FALSE]
    /\ failed = [n \in Nodes |-> FALSE]
    /\ executor = [n \in Nodes |-> FALSE]
    /\ future = [n \in Nodes |-> NoFuture]
    /\ received = [n \in Nodes |-> {}]
    /\ thread = [n \in Nodes |-> "none"]
    /\ last = Idle
    /\ steps = 0

BackendNext ==
    \/ \E k \in Owners, new \in Backends : SetBackend(k, new)
    \/ \E c \in Composites, k \in FnNodes : AddChild(c, k)
    \/ \E c \in Composites, k \in FnNodes : RemoveChild(c, k)
    \/ \E k \in FnNodes, p \in {None} \cup Composites : SetParent(k, p)
    \/ \E p \in {None, "other"} : SetMacroParent(p)

BackendSpec == BackendInit /\ [][BackendNext]_vars

(***************************************************************************)
(* Saving and loading: three parent-less nodes, n1 possibly feeding and    *)
(* triggering n3, n2 possibly with an executor, each saving after its runs *)
(* or not; the user sets inputs, runs, saves, loads, and makes a node anew *)
(* under the label of an old one, which is where its storage is found.     *)
(***************************************************************************)
\* saving and loading need python >= 3.11 (node.py 127); the model is of such
\* an interpreter
Python311 == TRUE

\* node.save()
SaveNode(n) ==
    /\ n \in FnNodes
    /\ Commit(Save(Cur, n), "save", n, FALSE, NoKw)

\* node.load(), where there is saved content
LoadNode(n) ==
    /\ saved[n] # NoFile
    /\ Commit(Load(Cur, n), "load", n, FALSE, NoKw)

\* Node.__post__, first branch: with overwrite_save the saved content is deleted
Deleted(st, n, overwrite_save) ==
    IF overwrite_save /\ Python311
    THEN Event([st EXCEPT !.saved[n] = NoFile], "delete", n) ELSE st

\* Node.__post__: do_load
do_load(st, n, overwrite_save) ==
    ~(overwrite_save /\ Python311) /\ Python311 /\ st.saved[n] # NoFile

\* try: self.run() except ReadinessError: pass
Swallowed(r) ==
    IF r.status = "ReadinessError" THEN [r EXCEPT !.status = "ok", !.raiser = None]
    ELSE r

\* a post-initialisation that loads what it finds although it has to run
LoadOrRun_loads_anyway(s0, n, load, run_after_init, iter) ==
    IF load THEN Load(s0, n)
    ELSE IF run_after_init
    THEN Swallowed(NodeRun(Event(s0, "run", n), n, RunFlags, NoKw, iter))
    ELSE s0

\* Node.__post__, the branches after the deletion
LoadOrRun(s0, n, load, run_after_init, iter) ==
    IF load /\ run_after_init THEN Raise(s0, "ValueError", n)
    ELSE IF load THEN Load(s0, n)
    ELSE IF run_after_init
    THEN Swallowed(NodeRun(Event(s0, "run", n), n, RunFlags, NoKw, iter))
    ELSE s0

\* Node.__post__ (the working directory is not part of the model)
post(st, n, overwrite_save, run_after_init, iter) ==
    LoadOrRun(Deleted(st, n, overwrite_save), n, do_load(st, n, overwrite_save),
              run_after_init, iter)

\* Node.__init__: a new node under the label n, with input x, no executor
\* and no connection
Fresh(st, n, x, sar) ==
    [st EXCEPT !.inVal[n] = x, !.outVal[n] = NotData,
               !.running[n] = FALSE, !.failed[n] = FALSE,
               !.future[n] = NoFuture, !.received[n] = {},
               !.save_after_run[n] = sar]

\* the state after a construction that ended as r: when it raised there is no
\* new node and the old one stays; what was deleted from the storage stays
\* deleted
Made(r, n, made) ==
    /\ r.status # "OutOfRange"
    /\ inVal' = IF made THEN r.inVal ELSE inVal
    /\ outVal' = IF made THEN r.outVal ELSE outVal
    /\ running' = IF made THEN r.running ELSE running
    /\ failed' = IF made THEN r.failed ELSE failed
    /\ future' = IF made THEN r.future ELSE future
    /\ received' = IF made THEN r.received ELSE received
    /\ save_after_run' = IF made THEN r.save_after_run ELSE save_after_run
    /\ executor' = IF made THEN [executor EXCEPT ![n] = FALSE] ELSE executor
    /\ saved' = r.saved

\* the record of a construction
Initialised(r, n, x, overwrite_save, run_after_init, sar) ==
    last' = [op |-> "init", node |-> n, parents |-> FALSE, kw |-> x,
             status |-> r.status, raiser |-> r.raiser, log |-> r.log,
             sigs |-> r.sigs, events |-> r.events,
             overwrite_save |-> overwrite_save,
             run_after_init |-> run_after_init,
             save_after_run |-> sar]

\* n = SingleValue(f, label=n, x=x, overwrite_save=..., run_after_init=...,
\* save_after_run=...), in place of an old node that has no connection and
\* no pending future
Construct(n, x, overwrite_save, run_after_init, sar) ==
    /\ steps < MaxSteps
    /\ steps' = steps + 1
    /\ ~Connected(conn, n)
    /\ future[n].state # "pending"
    /\ \E iter \in IterOrders, made \in BOOLEAN :
        /\ made = (post(Fresh(Cur, n, x, sar), n, overwrite_save, run_after_init,
                        iter).status = "ok")
        /\ Made(post(Fresh(Cur, n, x, sar), n, overwrite_save, run_after_init, iter),
                n, made)
        /\ Initialised(post(Fresh(Cur, n, x, sar), n, overwrite_save, run_after_init,
                            iter), n, x, overwrite_save, run_after_init, sar)
    /\ UNCHANGED <<label, parent, conn, thread, composite, apart, backend>>

StoreInit ==
    /\ label = [n \in Nodes |-> n]
    /\ parent = [n \in Nodes |-> None]
    /\ \E q \in SeqsUpTo({<<"n1", "n3">>}, 1) :
        conn = ConnectRunAll(ConnectDataAll([ch \in Channels |-> <<>>], q, 1), q, 1)
    /\ \E v \in {IntVal(0), IntVal(1)} :
        inVal = [k \in FnNodes |-> CASE k = "n1" -> IntVal(0)
                                     [] k = "n2" -> v
                                     [] OTHER    -> NotData]
    /\ outVal = [k \in FnNodes |-> NotData]
    /\ running = [n \in Nodes |-> FALSE]
    /\ failed = [n \in Nodes |-> FALSE]
    /\ \E e \in BOOLEAN : executor = [n \in Nodes |-> e /\ n = "n2"]
    /\ future = [n \in Nodes |-> NoFuture]
    /\ received = [n \in Nodes |-> {}]
    /\ thread = [n \in Nodes |-> "none"]
    /\ channels = [k \in FnNodes |-> Compatible]
    /\ starting = <<>>
    /\ io = BuildIO([label |-> label, parent |-> parent, conn |-> conn], channels)
    /\ registry = RegistryOf(parent)
    /\ maps = NoMaps
    /\ Apart
    /\ \E savers \in {{}, {"n2"}, {"n1", "n3"}, FnNodes} :
        save_after_run = [n \in Nodes |-> n \in savers]
    /\ saved = [n \in FnNodes |-> NoFile]
    /\ backend = [n \in Nodes \cup Composites |-> None]
    /\ last = Idle
    /\ steps = 0

StoreNext ==
    \/ \E n \in FnNodes, v \in UserVals : SetInput(n, v)
    \/ \E n \in FnNodes : Run(n, NoKw)
    \/ \E n \in FnNodes : FutureDone(n)
    \/ \E n \in FnNodes : SaveNode(n)
    \/ \E n \in FnNodes : LoadNode(n)
    \/ \E n \in FnNodes, x \in {NotData, IntVal(1)}, ow, rai, sar \in BOOLEAN :
        Construct(n, x, ow, rai, sar)

StoreSpec == StoreInit /\ [][StoreNext]_vars

\* a submitted computation runs to its end and the callback of its future is
\* called
FairSpec == Spec /\ \A n \in FnNodes : WF_vars(FutureDone(n))

(***************************************************************************)
(* Properties.  A step of a call is recognised by the record it leaves in  *)
(* last; the unprimed variables are then the state the call started from.  *)
(***************************************************************************)
\* the tree that a pull of n visits first: that of the parent when asked for
FirstVisited(n, parents) == IF parents THEN parent[n] ELSE n

\* some node of the data tree of n takes data, directly or not, from itself
CyclicTree(n) ==
    \E k \in get_nodes_in_data_tree(Cur, n) : k \in Closure(Cur, Upstream(Cur, k), {})

\* some node of the data tree of n has an executor
HoldsExecutor(n) == \E k \in get_nodes_in_data_tree(Cur, n) : executor[k]

\* every channel has the same partners after the step as before it
SameConnections ==
    \A ch \in Channels :
        Elems(conn'[ch]) = Elems(conn[ch]) /\ Len(conn'[ch]) = Len(conn[ch])

\* C1: in every reachable state and for every node, ready is true exactly
\* when the node is not running, has not failed, and every one of its data
\* inputs holds data that conforms to its type hint.
C1_ReadyIff ==
    \A n \in Nodes :
        ready(Cur, n) <=>
            /\ ~running[n]
            /\ ~failed[n]
            /\ \A k \in FnNodes : (k = n \/ (n \in Macros /\ parent[k] = n)) =>
                  /\ inVal[k] # NotData
                  /\ Hint(k) = "int" => IsInt(inVal[k])

\* a ready node next to a failed one and one whose input holds no data
C1_Witness ==
    /\ ready(Cur, "n1")
    /\ failed["n2"]
    /\ ~running["n3"] /\ ~failed["n3"] /\ ~ready(Cur, "n3")

Rewired ==
    \/ last'.status \notin {"ValueError", "CircularDataFlowError"}
    \/ last'.parents /\ last'.raiser = last'.node

\* C3: when run_data_tree has rewired run connections, then on exit, whether
\* the upstream run completed or raised, every node has its original label,
\* every run input its original connections in their order, every ran output
\* its original set of connections, and no temporary connection remains.
C3_RewiringUndone ==
    [][(last'.op = "pull" /\ Rewired) =>
        /\ label' = label
        /\ SameConnections
        /\ \A k \in Nodes : conn'[<<k, "run">>] = conn[<<k, "run">>]]_vars

\* a pull whose upstream run raised, in a tree where a run connection had to be
\* broken and made again
C3_Witness ==
    /\ last.op = "pull"
    /\ last.status = "ZeroDivisionError"
    /\ \E k \in get_nodes_in_data_tree(Cur, last.node) : conn[<<k, "run">>] # <<>>

\* the orders of the data tree of n in which every node comes after its sources
TopoOrders(n) ==
    LET tree == get_nodes_in_data_tree(Cur, n)
    IN  {q \in [1..Cardinality(tree) -> tree] :
            /\ \A k \in tree : \E i \in 1..Len(q) : q[i] = k
            /\ \A i \in 1..Len(q) :
                  Upstream(Cur, q[i]) \subseteq {q[j] : j \in 1..(i - 1)}}

\* the user runs the nodes of q one by one, kw going to node n
RECURSIVE ManualRun(_, _, _, _, _)
ManualRun(st, q, i, n, kw) ==
    IF i > Len(q) \/ st.status # "ok" THEN st
    ELSE ManualRun(NodeRun(st, q[i], [RunFlags EXCEPT !.emit = FALSE],
                           IF q[i] = n THEN kw ELSE NoKw, NodeSeq),
                   q, i + 1, n, kw)

\* C4: a pull of N in its own scope that returns has run every node of N's
\* data tree exactly once, each after all the nodes it takes data from, and N
\* last of all; N's output is the one that running the tree's nodes by hand
\* gives, whichever topological order is taken.
C4_PullRunsTreeInOrder ==
    [][(last'.op = "pull" /\ ~last'.parents /\ last'.status = "ok") =>
        LET n == last'.node
            tree == get_nodes_in_data_tree(Cur, n)
            ran == SelectSeq(last'.log, LAMBDA k : k \in tree)
        IN  /\ Elems(ran) = tree
            /\ Len(ran) = Cardinality(tree)
            /\ \A i \in 1..Len(ran) :
                  Upstream(Cur, ran[i]) \subseteq {ran[j] : j \in 1..(i - 1)}
            /\ last'.log[Len(last'.log)] = n
            /\ \A q \in TopoOrders(n) :
                  LET byHand == ManualRun(Cur, q, 1, n, last'.kw)
                  IN  byHand.status = "ok" /\ byHand.outVal[n] = outVal'[n]]_vars

\* a pull that returned from a tree with two independent upstream nodes, which
\* has more than one topological order
C4_Witness ==
    /\ last.op = "pull"
    /\ last.status = "ok"
    /\ Cardinality(TopoOrders(last.node)) > 1
    /\ Len(last.log) = 3

\* the nodes a pull of n may run: the data tree of n and, with
\* run_parent_trees_too, that of its parent
PullScope(n, parents) ==
    get_nodes_in_data_tree(Cur, n)
        \cup (IF parents THEN get_nodes_in_data_tree(Cur, parent[n]) ELSE {})

\* C5: a pull of N runs only the nodes of N's data tree; a node outside it is
\* neither computed nor started nor changed in its output, also when it is
\* connected to the ran output of N or of an upstream node.
C5_PullRunsOnlyTree ==
    [][last'.op = "pull" =>
        LET allowed == PullScope(last'.node, last'.parents)
        IN  /\ Elems(last'.log) \subseteq allowed
            /\ \A k \in FnNodes \ allowed :
                  /\ outVal'[k] = outVal[k]
                  /\ running'[k] = running[k]
                  /\ failed'[k] = failed[k]]_vars

C7_RejectedPullCommitsNothing ==
    [][(last'.op = "pull" /\ last'.status \in {"ValueError", "CircularDataFlowError"}) =>
        /\ last'.log = <<>>
        /\ outVal' = outVal
        /\ running' = running
        /\ failed' = failed]_vars

\* the value of the first connection, among those of n's input that come from
\* the given scope, that holds data in out, or NotData when none holds data
FirstData(n, out, scope) ==
    LET srcs == SelectSeq(conn[<<n, "x">>], LAMBDA s : parent[s[1]] = scope)
        have == {i \in 1..Len(srcs) : out[srcs[i][1]] # NotData}
    IN  IF have = {} THEN NotData
        ELSE out[srcs[CHOOSE i \in have : \A j \in have : i <= j][1]]

\* a node in this state of its flags, with v at its input, passes the check
Passes(n, v) ==
    /\ ~running[n] /\ ~failed[n]
    /\ v # NotData
    /\ Hint(n) = "int" => IsInt(v)

\* C8: run applies the keyword override, then runs the data tree, then
\* fetches, then checks readiness, then computes.  So after a call with an
\* override the input holds the value of the first connected source that
\* holds data, and the override only when no source does; the readiness check
\* is made on that value, and that value is what the computation (local or
\* submitted) receives.  The sources of the input of a macro's child are the
\* nodes of the macro; those outside the macro feed the macro's input, whose
\* value reaches the child when the parent's inputs are fetched, that is in
\* a pull with run_parent_trees_too, after the override and before the fetch.
C8_OverrideThenFetch ==
    [][(last'.kw # NoKw /\ (last'.op = "run" \/ (last'.op = "pull" /\ last'.status = "ok"))) =>
        LET n == last'.node
            now == IF last'.op = "run" THEN outVal ELSE outVal'
            fetched == FirstData(n, now, parent[n])
            handed == IF last'.parents /\ parent[n] # None
                      THEN FirstData(n, now, parent[parent[n]]) ELSE NotData
            used == IF fetched # NotData THEN fetched
                    ELSE IF handed # NotData THEN handed ELSE last'.kw
            out == on_run(n, used)
        IN  /\ inVal'[n] = used
            /\ ~Passes(n, used) => last'.status = "ReadinessError" /\ last'.log = <<>>
            /\ (Passes(n, used) /\ executor[n]) =>
                  future'[n].state = "pending" /\ future'[n].arg = used
            /\ (Passes(n, used) /\ ~executor[n]) =>
                  /\ n \in Elems(last'.log)
                  /\ IF out.exc = "ok" THEN outVal'[n] = out.val
                     ELSE last'.status = out.exc /\ outVal'[n] = outVal[n]]_vars

\* a run computed with the fetched value although an override with another
\* value was given
C8_Witness ==
    /\ last.op = "run"
    /\ last.kw # NoKw
    /\ inVal[last.node] # last.kw
    /\ last.node \in Elems(last.log)

\* C9: a run (readiness check on) of a node that is not ready once its input
\* is fetched ends with ReadinessError raised by that node, before anything
\* is computed: outputs, running, failed and futures are those before the
\* call and nothing was triggered over ran.  The same holds for the node of a
\* pull that refused to run.
C9_NotReadyRaises ==
    [][/\ last'.op = "run" =>
            (~Passes(last'.node, inVal'[last'.node]) =>
                /\ last'.status = "ReadinessError" /\ last'.raiser = last'.node
                /\ last'.log = <<>>
                /\ outVal' = outVal /\ running' = running
                /\ failed' = failed /\ future' = future)
       /\ (last'.op = "pull" /\ last'.status = "ReadinessError"
                /\ last'.raiser = last'.node) =>
            LET n == last'.node
            IN  /\ ~Passes(n, inVal'[n])
                /\ n \notin Elems(last'.log)
                /\ outVal'[n] = outVal[n] /\ running'[n] = running[n]
                /\ failed'[n] = failed[n] /\ future'[n] = future[n]]_vars

\* a run refused by the readiness check, of a node whose ran output is
\* connected to the run input of another node
C9_Witness ==
    /\ last.op = "run"
    /\ last.status = "ReadinessError"
    /\ last.raiser = last.node
    /\ conn[<<last.node, "ran">>] # <<>>

\* the exceptions a computation raises
ComputationErrors == {"TypeError", "ZeroDivisionError"}

\* C10: when the local computation of a node raises during a run, pull or
\* execute call, the call ends with that exception, and at that moment the
\* node has failed = True and running = False; no call returns normally, or
\* with another exception, after a computation in it has raised.
C10_FailureMarksAndPropagates ==
    [][last'.op \in {"run", "pull", "execute"} =>
        /\ \A k \in FnNodes :
              (k \in Elems(last'.log) /\ on_run(k, inVal'[k]).exc # "ok") =>
                  /\ last'.status = on_run(k, inVal'[k]).exc
                  /\ last'.raiser = k
        /\ \A k \in FnNodes :
              (failed'[k] /\ ~failed[k]) =>
                  last'.status \in ComputationErrors /\ last'.raiser = k
        /\ last'.status \in ComputationErrors =>
              failed'[last'.raiser] /\ ~running'[last'.raiser]]_vars

\* the computation of a node other than the called one raised, and the
\* exception came out of the call
C10_Witness ==
    /\ last.op \in {"run", "pull"}
    /\ last.status \in ComputationErrors
    /\ last.raiser # last.node
    /\ failed[last.raiser] /\ ~running[last.raiser]

\* C11: a run of a failed node that is not running and whose input, after the
\* override and the fetch, holds conforming data on which its function
\* succeeds, completes and leaves the node with failed = False.
C11_SuccessfulRunResetsFailed ==
    [][last'.op = "run" =>
        LET n == last'.node
            v == inVal'[n]
        IN  (/\ failed[n] /\ ~running[n] /\ ~executor[n]
             /\ v # NotData
             /\ Hint(n) = "int" => IsInt(v)
             /\ on_run(n, v).exc = "ok")
                => n \in Elems(last'.log) /\ ~failed'[n]]_vars

\* the deliveries of a call that were sent by the ran output of n
SentBy(n, sigs) == SelectSeq(sigs, LAMBDA d : d[1] = <<n, "ran">>)

\* C12: a run of a ready node with an executor returns with the node running
\* and a pending future, every output as before, nothing computed and no
\* signal delivered.  When the callback of the future has gone through, the
\* node's output is what its function gives for the submitted input, running
\* is False, and ran was delivered once to each connection, in order.
C12_ExecutorRoundTrip ==
    [][/\ (last'.op = "run" /\ executor[last'.node]
                /\ Passes(last'.node, inVal'[last'.node])) =>
            LET n == last'.node
            IN  /\ last'.status = "ok"
                /\ running'[n] /\ future'[n].state = "pending"
                /\ outVal' = outVal
                /\ last'.log = <<>> /\ last'.sigs = <<>>
                /\ \A k \in Nodes \ {n} :
                      running'[k] = running[k] /\ future'[k] = future[k]
       /\ (last'.op = "callback" /\ last'.status = "ok") =>
            LET n == last'.node
            IN  /\ future[n].state = "pending"
                /\ future'[n].state = "done"
                /\ outVal'[n] = on_run(n, future[n].arg).val
                /\ ~running'[n]
                /\ future[n].emit =>
                      SentBy(n, last'.sigs) =
                          [i \in 1..Len(conn[<<n, "ran">>]) |->
                              <<<<n, "ran">>, conn[<<n, "ran">>][i]>>]]_vars

\* the callback of a future has committed the output and a node connected to
\* ran has computed
C12_Witness ==
    /\ last.op = "callback"
    /\ last.status = "ok"
    /\ ~running[last.node]
    /\ outVal[last.node] # NotData
    /\ Len(last.sigs) > 0
    /\ Len(last.log) > 0

\* C13: when the computation submitted to an executor fails, the callback
\* leaves the node failed and not running, the future holds the exception for
\* result() to raise, no output changes and ran is not delivered; and a node
\* running such a computation does not stay running: it gets there.
C13_ExecutorFailure ==
    /\ [][(last'.op = "callback" /\ on_run(last'.node, future[last'.node].arg).exc # "ok") =>
            LET n == last'.node
            IN  /\ failed'[n] /\ ~running'[n]
                /\ future'[n].state = "failed"
                /\ future'[n].exc = on_run(n, future[n].arg).exc
                /\ outVal' = outVal
                /\ last'.sigs = <<>> /\ last'.log = <<>>]_vars
    /\ \A n \in FnNodes :
          (future[n].state = "pending" /\ on_run(n, future[n].arg).exc # "ok")
              ~> (future[n].state = "failed" /\ failed[n] /\ ~running[n])

\* the callback of a failed computation has gone through, on a node whose ran
\* output is connected
C13_Witness ==
    /\ last.op = "callback"
    /\ future[last.node].state = "failed"
    /\ failed[last.node] /\ ~running[last.node]
    /\ conn[<<last.node, "ran">>] # <<>>

\* the connections of t's own input channel: those from the nodes of t's
\* scope (the others are connections of the input of t's macro)
OwnSources(t) ==
    SelectSeq(conn[<<t, "x">>], LAMBDA c : parent[c[1]] = parent[t])

\* C14: whenever ran of a node s is delivered to the run input of a node t, s
\* has finished (not running, not failed) with its output committed, so that
\* t, when its first data connection is the output of s, has fetched that
\* output; and a node whose computation raised has delivered no ran.
C14_RanAfterCommit ==
    [][last'.op \in {"run", "pull", "execute", "callback"} =>
        /\ \A i \in 1..Len(last'.sigs) :
              LET s == last'.sigs[i][1][1]
                  t == last'.sigs[i][2][1]
              IN  /\ s \in Elems(last'.log) \/ (last'.op = "callback" /\ s = last'.node)
                  /\ ~running'[s] /\ ~failed'[s]
                  /\ outVal'[s] # NotData
                  /\ (/\ t \in FnNodes /\ t \in Elems(last'.log)
                      /\ OwnSources(t) # <<>>
                      /\ OwnSources(t)[1] = <<s, "result">>)
                        => inVal'[t] = outVal'[s]
        /\ \A k \in FnNodes :
              (failed'[k] /\ ~failed[k]) => SentBy(k, last'.sigs) = <<>>]_vars

\* a node triggered over ran has computed with the output its sender had just
\* committed
C14_Witness ==
    /\ last.op = "run"
    /\ \E i \in 1..Len(last.sigs) :
          LET s == last.sigs[i][1][1]
              t == last.sigs[i][2][1]
          IN  /\ t \in Elems(last.log)
              /\ OwnSources(t) # <<>>
              /\ OwnSources(t)[1] = <<s, "result">>
              /\ inVal[t] = outVal[s]

\* how often n occurs in the sequence q
Count(n, q) == Len(SelectSeq(q, LAMBDA z : z = n))

\* the senders of the deliveries to the input channel ch, in order
Senders(ch, sigs) ==
    LET ds == SelectSeq(sigs, LAMBDA d : d[2] = ch)
    IN  [i \in 1..Len(ds) |-> ds[i][1]]

\* the full rounds in the signals D from position i on, for an input with the
\* sources S that has noted got: a round is full with the first signal by
\* which every source has sent one; what is left belongs to the next round
RECURSIVE Rounds(_, _, _, _)
Rounds(S, got, D, i) ==
    IF i > Len(D) THEN [full |-> 0, rest |-> got]
    ELSE IF S \subseteq (got \cup {D[i]})
    THEN LET r == Rounds(S, {}, D, i + 1) IN [full |-> r.full + 1, rest |-> r.rest]
    ELSE Rounds(S, got \cup {D[i]}, D, i + 1)

\* C15: a node that is triggered only over its accumulate_and_run input
\* computes in a call only if, with the signals of that call, every connected
\* source has sent one since the last firing; in a call that ends well it
\* computes once per round completed, and afterwards holds what was sent
\* after the last full round, never a full round.
C15_AccumulateFiresPerRound ==
    [][last'.op = "run" =>
        \A t \in FnNodes \ {last'.node} :
            LET ch == <<t, "accumulate_and_run">>
                S == Elems(conn[ch])
                D == Senders(ch, last'.sigs)
                r == Rounds(S, received[t], D, 1)
            IN  (S # {} /\ conn[<<t, "run">>] = <<>>) =>
                    /\ t \in Elems(last'.log) => S \subseteq (received[t] \cup Elems(D))
                    /\ received'[t] # S
                    /\ last'.status = "ok" =>
                          /\ Count(t, last'.log) = r.full
                          /\ received'[t] = r.rest]_vars

\* a node with two sources on its accumulate_and_run input has computed, in a
\* call that completed a round begun by an earlier call
C15_Witness ==
    /\ last.op = "run" /\ last.status = "ok"
    /\ \E t \in FnNodes \ {last.node} :
          /\ Cardinality(Elems(conn[<<t, "accumulate_and_run">>])) = 2
          /\ conn[<<t, "run">>] = <<>>
          /\ Count(t, last.log) = 1
          /\ Len(Senders(<<t, "accumulate_and_run">>, last.sigs)) = 1
          /\ received[t] = {}

\* the deliveries of a push that starts with ran of n, over run connections
\* only: each connection of n in turn, each followed by the whole push of the
\* node it triggers
RECURSIVE Push(_, _, _)
Push(c, n, i) ==
    IF i > Len(c[<<n, "ran">>]) THEN <<>>
    ELSE <<<<<<n, "ran">>, c[<<n, "ran">>][i]>>>>
             \o Push(c, c[<<n, "ran">>][i][1], 1) \o Push(c, n, i + 1)

IsPrefix(p, q) == Len(p) <= Len(q) /\ \A i \in 1..Len(p) : p[i] = q[i]

\* C16: in a graph with run connections only, the deliveries of a run are those
\* of the depth-first push from the node in connection order (all of them when
\* the call ends well, the first of them when a node raises), and every
\* delivery makes its receiver compute at once.
C16_PushIsDepthFirst ==
    [][(last'.op = "run"
            /\ \A t \in Nodes : conn[<<t, "accumulate_and_run">>] = <<>>) =>
        LET n == last'.node
            expected == Push(conn, n, 1)
        IN  /\ IsPrefix(last'.sigs, expected)
            /\ last'.status = "ok" =>
                  /\ last'.sigs = expected
                  /\ last'.log = <<n>> \o [i \in 1..Len(expected) |-> expected[i][2][1]]]_vars

\* a run whose node has two connections, the first of which has triggered a
\* node that itself triggered the receiver of the second
C16_Witness ==
    /\ last.op = "run" /\ last.status = "ok"
    /\ \A t \in Nodes : conn[<<t, "accumulate_and_run">>] = <<>>
    /\ Len(last.sigs) = 3
    /\ last.sigs[1][1] = last.sigs[3][1]
    /\ last.sigs[2][1][1] = last.sigs[1][2][1]
    /\ last.sigs[2][2] = last.sigs[3][2]
    /\ Count(last.sigs[3][2][1], last.log) = 2

\* C17: with both producers on executors and the consumer's accumulate_and_run
\* connected to ran of both, the consumer runs once for each pair of
\* completions: whenever a callback runs it, both producers have committed
\* their output and have each been noted since the consumer last ran.
C17_ConsumerRunsOncePerPair ==
    [][last'.op = "fire" =>
        /\ \A k \in Producers : outVal[k] # NotData
        /\ Elems(conn[<<Consumer, "accumulate_and_run">>]) \subseteq received[Consumer]]_vars

\* everything a replacement may touch
Structure == <<label, parent, conn, starting, io>>

\* C18: a replace_child whose replacement has a parent or a connection, or
\* whose node to replace is not a child of the macro, ends with ValueError
\* and leaves labels, parents, connections, starting nodes and macro IO as
\* they were.
C18_InvalidReplaceRejected ==
    [][last'.op = "replace" =>
        LET old == last'.node
            new == last'.other
        IN  (parent[new] # None \/ Connected(conn, new) \/ parent[old] # "m")
                => last'.status = "ValueError" /\ UNCHANGED Structure]_vars

\* a replacement that has a connection but no parent was refused for a child
C18_Witness ==
    /\ last.op = "replace" /\ last.status = "ValueError"
    /\ parent[last.node] = "m" /\ parent[last.other] = None
    /\ Connected(conn, last.other)

\* the replacement lacks the label of a connected data channel of old, or of
\* a data channel of old whose macro channel is connected outside
Incompatible(old, new) ==
    \/ \E l \in Compatible : conn[<<old, l>>] # <<>> /\ l \notin channels[new]
    \/ \E e \in io : e.ext # <<>> /\ e.link[1] = old /\ e.link[2] \notin channels[new]

\* C19: a valid replace_child whose replacement lacks such a label ends with
\* AttributeError and leaves everything as it was: labels (new keeps its
\* own), parents (old a child, new parent-less), all connections (old's
\* restored, new unconnected), the starting nodes and the macro IO with its
\* links and outside connections.
C19_FailedReplaceReverted ==
    [][last'.op = "replace" =>
        LET old == last'.node
            new == last'.other
        IN  (/\ parent[new] = None /\ ~Connected(conn, new) /\ parent[old] = "m"
             /\ Incompatible(old, new))
                => /\ last'.status = "AttributeError"
                   /\ UNCHANGED Structure
                   /\ parent'[old] = "m" /\ parent'[new] = None
                   /\ ~Connected(conn', new) /\ label'[new] = label[new]]_vars

\* a replacement failed on the macro IO, after the connection of old on x was
\* copied: old has it again, is a starting node, and its channel on the macro
\* is connected outside
C19_Witness ==
    /\ last.op = "replace" /\ last.status = "AttributeError"
    /\ conn[<<last.node, "x">>] # <<>> /\ "x" \in channels[last.other]
    /\ last.node \in Elems(starting)
    /\ \E e \in io : e.ext # <<>> /\ e.link[1] = last.node

\* the sequence q with every old replaced by new
Swapped(q, old, new) == [i \in 1..Len(q) |-> IF q[i] = old THEN new ELSE q[i]]

\* C20: a valid replace_child with a compatible replacement succeeds: new is a
\* child of the macro under the label of old; on every channel new has the
\* partners old had, and they have new as partner where they had old; each
\* macro channel that was connected outside is there under its name with the
\* same outside connections, linked to new where it was linked to old; new
\* stands among the starting nodes where old stood; old has no parent and no
\* connection.
C20_ReplaceSucceeds ==
    [][last'.op = "replace" =>
        LET old == last'.node
            new == last'.other
        IN  (/\ parent[new] = None /\ ~Connected(conn, new) /\ parent[old] = "m"
             /\ ~Incompatible(old, new))
                => /\ last'.status = "ok"
                   /\ parent'[new] = "m" /\ label'[new] = label[old]
                   /\ \A l \in Elems(ChannelSeq) :
                         /\ conn'[<<new, l>>] = conn[<<old, l>>]
                         /\ \A p \in Elems(conn[<<old, l>>]) :
                               Elems(conn'[p]) =
                                   (Elems(conn[p]) \ {<<old, l>>}) \cup {<<new, l>>}
                   /\ \A e \in io : e.ext # <<>> =>
                         \E b \in io' :
                            /\ b.name = e.name /\ b.ext = e.ext
                            /\ b.link = IF e.link[1] = old THEN <<new, e.link[2]>>
                                        ELSE e.link
                   /\ \A b \in io' : b.link[1] # old
                   /\ starting' = Swapped(starting, old, new)
                   /\ parent'[old] = None /\ ~Connected(conn', old)]_vars

\* a child with connections, second of two starting nodes, with its macro
\* channel connected outside, has been replaced
C20_Witness ==
    /\ last.op = "replace" /\ last.status = "ok"
    /\ Connected(conn, last.other)
    /\ Len(starting) = 2 /\ starting[2] = last.other
    /\ \E e \in io : e.ext # <<>> /\ e.link[1] = last.other
    /\ parent[last.node] = None /\ ~Connected(conn, last.node)

\* every registered child has the registering composite as its parent, and
\* so no node is registered in two composites
RegisteredUnderParent == \A c \in Composites : \A k \in registry[c] : parent[k] = c

\* C21: add_child refuses a node with a different parent (ValueError) and a
\* node whose label another child has, changing neither registry nor parent;
\* otherwise the node gets the composite as parent and is registered; and
\* always every registered child has the registering composite as its
\* parent.
C21_AddChildKeepsFamilies ==
    /\ [][last'.op = "add" =>
            LET c == last'.other
                k == last'.node
            IN  IF HasOtherParent(c, k) \/ LabelTaken(c, k)
                THEN /\ last'.status # "ok"
                     /\ UNCHANGED <<parent, registry>>
                ELSE /\ last'.status = "ok"
                     /\ parent'[k] = c /\ k \in registry'[c]
                     /\ \A j \in FnNodes \ {k} : parent'[j] = parent[j]
                     /\ \A d \in Composites : registry'[d] \ {k} = registry[d] \ {k}]_vars
    /\ []RegisteredUnderParent

\* the part of C21 about the add_child call alone
AddChildActs ==
    [][last'.op = "add" =>
        LET c == last'.other
            k == last'.node
        IN  IF HasOtherParent(c, k) \/ LabelTaken(c, k)
            THEN last'.status # "ok" /\ UNCHANGED <<parent, registry>>
            ELSE last'.status = "ok" /\ parent'[k] = c /\ k \in registry'[c]]_vars

\* C22: after remove_child the child has no connection, is no starting node of
\* the composite, has no parent and is not registered in the composite; every connection
\* between other nodes, the other starting nodes, the other nodes' parents
\* and registrations are as before.
C22_RemoveChildOrphans ==
    [][last'.op = "remove" =>
        LET c == last'.other
            k == last'.node
        IN  /\ ~Connected(conn', k)
            /\ c = "m" => k \notin Elems(starting')
            /\ parent'[k] = None
            /\ k \notin registry'[c]
            /\ \A ch \in Channels : ch[1] # k =>
                  conn'[ch] = SelectSeq(conn[ch], LAMBDA z : z[1] # k)
            /\ starting' = IF c = "m" THEN SelectSeq(starting, LAMBDA z : z # k)
                           ELSE starting
            /\ \A j \in FnNodes \ {k} : parent'[j] = parent[j] /\ label'[j] = label[j]
            /\ registry'[c] = registry[c] \ {k}
            /\ \A d \in Composites \ {c} : registry'[d] = registry[d]]_vars

\* a starting node of the macro with connections was removed, and a
\* connection between two other nodes is still there
C22_Witness ==
    /\ last.op = "remove" /\ last.other = "m"
    /\ ~Connected(conn, last.node)
    /\ parent[last.node] = None
    /\ starting = <<>>
    /\ \E ch \in Channels : conn[ch] # <<>>
    /\ \E j \in registry["m"] : Connected(conn, j)

\* the step ends in the state, and with the outcome, of the call that returned r
EndsAs(r) ==
    /\ label' = r.label /\ conn' = r.conn
    /\ inVal' = r.inVal /\ outVal' = r.outVal
    /\ running' = r.running /\ failed' = r.failed
    /\ future' = r.future /\ received' = r.received
    /\ last'.status = r.status /\ last'.raiser = r.raiser
    /\ last'.log = r.log /\ last'.sigs = r.sigs

\* C23: execute, pull and calling the node are run with fixed flags.
\* execute is run without data tree, fetch and readiness check, computed
\* locally, without the ran signal: the node computes whatever its flags,
\* inputs and executor are, its inputs are not fetched, no future is made
\* and no signal is sent.  pull is run with the data tree, fetch and
\* readiness check, without the ran signal: a pull that returns after
\* computing the node once has sent no ran of it.  Calling the node is pull
\* with run_parent_trees_too = True.
C23_ShortcutsAreRuns ==
    [][/\ last'.op = "execute" =>
            /\ \E iter \in IterOrders :
                 EndsAs(NodeRun(Cur, last'.node,
                                [tree |-> FALSE, parents |-> FALSE, fetch |-> FALSE,
                                 check |-> FALSE, local |-> TRUE, emit |-> FALSE],
                                last'.kw, iter))
            /\ last'.log = <<last'.node>>
            /\ last'.sigs = <<>>
            /\ last'.status # "ReadinessError"
            /\ future' = future
            /\ inVal' = [inVal EXCEPT ![last'.node] =
                             IF last'.kw = NoKw THEN @ ELSE last'.kw]
       /\ last'.op = "pull" =>
            /\ \E iter \in IterOrders :
                 EndsAs(NodeRun(Cur, last'.node,
                                [tree |-> TRUE, parents |-> last'.parents, fetch |-> TRUE,
                                 check |-> TRUE, local |-> FALSE, emit |-> FALSE],
                                last'.kw, iter))
            /\ (last'.status = "ok" /\ Count(last'.node, last'.log) = 1) =>
                  \A i \in 1..Len(last'.sigs) : last'.sigs[i][1][1] # last'.node
       /\ last'.op = "call" =>
            /\ \E iter \in IterOrders :
                 EndsAs(NodeRun(Cur, last'.node,
                                [tree |-> TRUE, parents |-> TRUE, fetch |-> TRUE,
                                 check |-> TRUE, local |-> FALSE, emit |-> FALSE],
                                last'.kw, iter))
            /\ (last'.status = "ok" /\ Count(last'.node, last'.log) = 1) =>
                  \A i \in 1..Len(last'.sigs) : last'.sigs[i][1][1] # last'.node
      ]_vars

\* execute computed a node that has an executor and whose earlier submission
\* is still pending
C23_Witness ==
    /\ last.op = "execute"
    /\ executor[last.node]
    /\ future[last.node].state = "pending"
    /\ last.log = <<last.node>>
    /\ last.status = "ok"

\* the sources of the input x of k that lie in the scope sc, in connection order
SourcesIn(k, sc) == SelectSeq(conn[<<k, "x">>], LAMBDA src : parent[src[1]] = sc)

\* a pull of its own scope: only nodes of the pulled node's data tree (which
\* share its parent) compute, and a node of the tree without a source in the
\* scope computes on the value its input held (or was given by keyword)
PullsLocally ==
    (last'.op = "pull" /\ ~last'.parents) =>
        LET n == last'.node
            tree == get_nodes_in_data_tree(Cur, n)
        IN  /\ \A k \in tree : parent[k] = parent[n]
            /\ Elems(last'.log) \subseteq tree
            /\ \A k \in Elems(last'.log) \cap tree :
                  (SourcesIn(k, parent[k]) = <<>> /\ ~failed'[k]) =>
                      LET v == IF k = n /\ last'.kw # NoKw THEN last'.kw ELSE inVal[k]
                      IN  inVal'[k] = v /\ outVal'[k] = on_run(k, v).val

\* a pull through the parent that returned: the parent's data tree computed
\* before any node of the inner scope, and an inner node fed from outside
\* computed on the value freshly computed by its first outer source
PullsThroughParent ==
    (/\ last'.op \in {"pull", "call"} /\ last'.parents
     /\ parent[last'.node] # None /\ last'.status = "ok") =>
        LET n == last'.node
            p == parent[n]
            outer == get_nodes_in_data_tree(Cur, p) \ {p}
            inner == get_nodes_in_data_tree(Cur, n)
            log == last'.log
        IN  /\ outer \cup inner \subseteq Elems(log)
            /\ \A i, j \in 1..Len(log) :
                  (log[i] \in inner /\ log[j] \in outer) => j < i
            /\ \A k \in inner :
                  (SourcesIn(k, p) = <<>> /\ SourcesIn(k, parent[p]) # <<>>) =>
                      LET src == SourcesIn(k, parent[p])[1][1]
                      IN  /\ outVal'[src] = on_run(src, inVal'[src]).val
                          /\ inVal'[k] = outVal'[src]
                          /\ outVal'[k] = on_run(k, outVal'[src]).val

\* C24: a pull without run_parent_trees_too runs only upstream nodes that
\* share the pulled node's parent and uses the values already set on inputs
\* fed from outside that scope; with run_parent_trees_too the data tree of
\* the parent runs first, the parent's inputs are fetched before the inner
\* scope runs, and the result reflects the freshly computed outer values.
C24_PullScopes == [][PullsLocally /\ PullsThroughParent]_vars

C24_ScopesOrdered == [][PullsThroughParent]_vars

\* n2 outside the macro feeds n1 inside it, n1 feeds n3: pulling n3 through
\* the parent ran n2, then n1 on n2's fresh value, then n3
C24_Witness ==
    /\ last.op \in {"pull", "call"} /\ last.parents /\ last.node = "n3"
    /\ last.status = "ok"
    /\ last.log = <<"n2", "n1", "n3">>
    /\ parent["n1"] = "m" /\ parent["n3"] = "m" /\ parent["n2"] = None
    /\ outVal["n2"] = IntVal(1) /\ inVal["n1"] = IntVal(1)
    /\ outVal["n1"] = IntVal(2) /\ outVal["n3"] = IntVal(3)

\* the same graph, n3 pulled in its own scope: n1 computed on the 0 set on
\* its input, n2 did not run, and the result is 2
C24_LocalWitness ==
    /\ last.op = "pull" /\ ~last.parents /\ last.node = "n3"
    /\ last.status = "ok"
    /\ last.log = <<"n1", "n3">>
    /\ parent["n1"] = "m" /\ parent["n3"] = "m" /\ parent["n2"] = None
    /\ conn[<<"n1", "x">>] = <<(<<"n2", "result">>)>>
    /\ outVal["n2"] = NotData
    /\ inVal["n1"] = IntVal(0) /\ outVal["n3"] = IntVal(2)

\* the future of n is the one before the step, or that one resolved
FutureKept(n) ==
    \/ future'[n] = future[n]
    \/ /\ last'.op = "callback" /\ last'.node = n
       /\ future'[n].state \in {"done", "failed"}
       /\ future'[n].arg = future[n].arg

Did(what, n) == \E i \in 1..Len(last'.events) : last'.events[i] = <<what, n>>

\* C25: what to_storage captures of a node (the running and failed flags,
\* save_after_run, and the value of every input and output channel) is what
\* from_storage puts back on a node of the same class under that label,
\* whatever was done to the node in between; the captured content changes
\* only by another save or by deletion.
C25_StorageRoundTrip ==
    [][\A n \in FnNodes :
        /\ (Did("save", n) /\ last'.status = "ok") =>
              /\ Len(saved'[n]) = 1
              /\ (saved'[n][1].running = 1) = running'[n]
              /\ (saved'[n][1].failed = 1) = failed'[n]
              /\ (saved'[n][1].save_after_run = 1) = save_after_run'[n]
              /\ saved'[n][1].inputs.x = inVal'[n]
              /\ saved'[n][1].outputs.result = outVal'[n]
        /\ Did("load", n) =>
              /\ saved[n] # NoFile /\ saved'[n] = saved[n]
              /\ running'[n] = (saved[n][1].running = 1)
              /\ failed'[n] = (saved[n][1].failed = 1)
              /\ save_after_run'[n] = (saved[n][1].save_after_run = 1)
              /\ inVal'[n] = saved[n][1].inputs.x
              /\ outVal'[n] = saved[n][1].outputs.result
        /\ saved'[n] # saved[n] => Did("save", n) \/ Did("delete", n)]_vars

\* a load put back the running flag, saved while the future was pending, on a
\* node whose future is done by now
C25_Witness ==
    /\ last.op = "load"
    /\ running[last.node]
    /\ future[last.node].state = "done"
    /\ outVal[last.node] = NotData
    /\ saved[last.node][1].running = 1

\* whether node k saves after its runs, during the step
SavesAfterRun(k) ==
    IF last'.op = "init" /\ last'.node = k THEN last'.save_after_run
    ELSE save_after_run[k]

\* C28: with save_after_run set, every run that reaches its finish makes
\* exactly one save, right after the finish, also when the finish raises;
\* the save of a run that fires ran comes before ran.  Without the flag a
\* finish saves nothing.
C28_SaveAfterEveryFinish ==
    [][LET ev == last'.events
       IN  \A i \in 1..Len(ev) : \A k \in FnNodes :
             /\ ev[i] = <<"finish", k>> =>
                   IF SavesAfterRun(k)
                   THEN /\ i < Len(ev) /\ ev[i + 1] = <<"save", k>>
                        /\ saved'[k] # NoFile
                   ELSE i < Len(ev) => ev[i + 1] # <<"save", k>>
             /\ (ev[i] = <<"save", k>> /\ last'.op # "save") =>
                   i > 1 /\ ev[i - 1] = <<"finish", k>>
             /\ ev[i] = <<"ran", k>> =>
                   /\ i > 1
                   /\ ev[i - 1] = IF SavesAfterRun(k) THEN <<"save", k>>
                                  ELSE <<"finish", k>>]_vars

\* n1 ran, saved, fired ran; n3, triggered by it, ran, saved and fired ran
C28_Witness ==
    /\ last.op = "run" /\ last.status = "ok"
    /\ last.events = <<(<<"finish", "n1">>), <<"save", "n1">>, <<"ran", "n1">>,
                       <<"finish", "n3">>, <<"save", "n3">>, <<"ran", "n3">>>>
    /\ saved["n1"] # NoFile /\ saved["n3"] # NoFile

\* the callback of a failed computation raised in its finish and saved
C28_FailedFinishSaved ==
    /\ last.op = "callback" /\ last.status = "ZeroDivisionError"
    /\ last.events = <<(<<"finish", "n2">>), <<"save", "n2">>>>
    /\ saved["n2"] # NoFile /\ saved["n2"][1].failed = 1

\* how often the construction did what to its node
Times(what, n) ==
    Cardinality({i \in 1..Len(last'.events) : last'.events[i] = <<what, n>>})

\* C29: at the end of its construction a node has loaded, or run once, or
\* done neither.  With saved content and run_after_init the construction
\* raises ValueError and neither loads nor runs; with overwrite_save the saved
\* content is deleted and never loaded; with run_after_init a node that is not
\* ready ends with running = False and failed = False, the ReadinessError
\* swallowed.
C29_LoadOrRunOnce ==
    [][last'.op = "init" =>
        LET n == last'.node
            found == saved[n] # NoFile
            ow == last'.overwrite_save
            rai == last'.run_after_init
            x == last'.kw
            notReady == x = NotData \/ (Hint(n) = "int" /\ ~IsInt(x))
        IN  /\ Times("load", n) + Times("run", n) <= 1
            /\ Times("load", n) = 1 <=> (found /\ ~ow /\ ~rai)
            /\ Times("run", n) = 1 <=> (rai /\ (ow \/ ~found))
            /\ (found /\ ~ow /\ rai) =>
                  /\ last'.status = "ValueError"
                  /\ last'.events = <<>> /\ last'.log = <<>>
                  /\ saved' = saved /\ inVal' = inVal /\ outVal' = outVal
                  /\ running' = running /\ failed' = failed
            /\ ow =>
                  /\ last'.events # <<>> /\ last'.events[1] = <<"delete", n>>
                  /\ Times("load", n) = 0
                  /\ saved'[n] # NoFile => Did("save", n)
            /\ (rai /\ (ow \/ ~found) /\ notReady) =>
                  /\ last'.status = "ok"
                  /\ last'.log = <<>>
                  /\ ~running'[n] /\ ~failed'[n]
                  /\ inVal'[n] = x /\ outVal'[n] = NotData]_vars

\* a construction with run_after_init and a wrongly typed input went through
\* without running, over saved content that overwrite_save deleted
C29_Witness ==
    /\ last.op = "init" /\ last.status = "ok"
    /\ last.run_after_init /\ last.overwrite_save
    /\ last.kw = NotData
    /\ last.events = <<(<<"delete", last.node>>), <<"run", last.node>>>>
    /\ saved[last.node] = NoFile
    /\ ~running[last.node] /\ ~failed[last.node]
    /\ steps > 1

\* a construction with run_after_init found saved content and was refused
C29_Refused ==
    /\ last.op = "init" /\ last.status = "ValueError"
    /\ saved[last.node] # NoFile

\* the parent-most owner above k, found by walking up the parents
RECURSIVE Topmost(_)
Topmost(k) ==
    IF k \notin DOMAIN parent \/ parent[k] = None THEN k ELSE Topmost(parent[k])

\* C30: the storage backend read on a node that has a parent is the one
\* held by the root of its graph, after any sequence of backend assignments,
\* adoptions, removals and parent assignments; assigning to a node with a
\* parent a backend that is not None and differs from the root's raises
\* ValueError and changes nothing; every other assignment is stored on the
\* node itself; no other step touches a stored backend.
C30_BackendOfRoot ==
    /\ [](\A k \in Nodes :
            parent[k] # None => storage_backend(backend, parent, k) = backend[Topmost(k)])
    /\ [][/\ last'.op = "backend" =>
              LET k == last'.node
                  new == last'.other
                  hasParent == k \in DOMAIN parent /\ parent[k] # None
              IN  IF new # None /\ hasParent /\ new # backend[Topmost(k)]
                  THEN last'.status = "ValueError" /\ backend' = backend
                  ELSE last'.status = "ok" /\ backend' = [backend EXCEPT ![k] = new]
          /\ last'.op # "backend" => backend' = backend]_vars

\* n1 was adopted by the macro while holding another backend than the root
\* of the macro's graph: what is read on it now is the root's
C30_Witness ==
    /\ last.op = "add" /\ last.status = "ok" /\ last.node = "n1"
    /\ parent["n1"] = "m" /\ parent["m"] = "other"
    /\ backend["n1"] = "tinybase" /\ backend["m"] = None /\ backend["other"] = "h5io"
    /\ storage_backend(backend, parent, "n1") = "h5io"

\* an assignment to a child was refused
C30_Refused ==
    /\ last.op = "backend" /\ last.status = "ValueError"
    /\ parent[last.node] = "m"

\* the channels of the macro's IO that go by the name nm
Named(set, nm) == {e \in set : e.name = nm}

\* C26: a child channel renamed by inputs_map or outputs_map is in the IO of
\* the macro under the new label, once, and not under its child-path label; a
\* channel mapped to None is not in the IO; a value set through the renamed
\* input reaches the child channel, while the child-path label is no input
\* to set; after a run the renamed output holds the child's output.
C26_MapsRename ==
    /\ [](\A ch \in FnNodes \X Compatible : parent[ch[1]] = "m" =>
            /\ maps[ch] \notin {Absent, Disabled} =>
                  /\ Cardinality(Named(io, <<"", maps[ch][2]>>)) = 1
                  /\ \A e \in Named(io, <<"", maps[ch][2]>>) : e.link = ch
                  /\ Named(io, <<label[ch[1]], ch[2]>>) = {}
            /\ maps[ch] = Disabled => \A e \in io : e.link # ch)
    /\ [][/\ last'.op = "set_macro_input" =>
              LET nm == last'.node
                  v == last'.other
              IN  /\ \A ch \in FnNodes \X {"x"} :
                        (parent[ch[1]] = "m" /\ maps[ch] \notin {Absent, Disabled}) =>
                            /\ nm = <<"", maps[ch][2]>> =>
                                  /\ last'.status = "ok"
                                  /\ inVal'[ch[1]] = v
                                  /\ \A e \in Named(io', nm) : e.value = v
                            /\ nm = <<label[ch[1]], ch[2]>> =>
                                  last'.status = "AttributeError" /\ inVal' = inVal
                  /\ \A ch \in FnNodes \X {"x"} :
                        (parent[ch[1]] = "m" /\ maps[ch] = Disabled
                         /\ nm = <<label[ch[1]], ch[2]>>) =>
                            last'.status = "AttributeError" /\ inVal' = inVal
          /\ (last'.op = "run_macro" /\ last'.status = "ok") =>
              \A ch \in FnNodes \X {"result"} :
                  (parent[ch[1]] = "m" /\ maps[ch] \notin {Absent, Disabled}) =>
                      \A e \in Named(io', <<"", maps[ch][2]>>) :
                          e.value = outVal'[ch[1]] /\ e.value # NotData]_vars

\* the macro ran on a value set through my_input: my_output holds the output
\* of n3 and intermediate that of n1, which is connected inside the macro
C26_Witness ==
    /\ last.op = "run_macro" /\ last.status = "ok"
    /\ maps[<<"n1", "x">>] = Renamed("my_input")
    /\ inVal["n1"] = IntVal(1)
    /\ \E e \in io : e.name = <<"", "my_input">> /\ e.value = IntVal(1)
    /\ \E e \in io : e.name = <<"", "my_output">> /\ e.value = IntVal(3)
    /\ \E e \in io : e.name = <<"", "intermediate">> /\ e.value = IntVal(2)
    /\ \A e \in io : e.name[1] = ""

\* C31: replace_with on a node without parent only warns: no label, parent,
\* connection, registry, starting node or IO channel changes; on a node with
\* a parent the labels, parents, connections, registries, starting nodes and
\* IO, and the way the call ends, are those of
\* parent.replace_child(self, other).
C31_ReplaceWithIsReplaceChild ==
    [][last'.op = "replace_with" =>
        LET n == last'.node
            g == replace_child(Graph, n, last'.other)
        IN  IF parent[n] = None
            THEN /\ last'.status = "warning"
                 /\ label' = label /\ parent' = parent /\ conn' = conn
                 /\ registry' = registry /\ starting' = starting /\ io' = io
            ELSE /\ last'.status = g.status
                 /\ label' = g.label /\ parent' = g.parent /\ conn' = g.conn
                 /\ registry' = RegistryOf(g.parent)
                 /\ starting' = g.starting /\ io' = g.io]_vars

\* replace_with has put a node with connections in the place of a child of
\* the macro
C31_Witness ==
    /\ last.op = "replace_with"
    /\ last.status = "ok"
    /\ parent[last.other] = "m" /\ parent[last.node] = None
    /\ Connected(conn, last.other)

\* replace_with on a node without parent has only warned
C31_Warned ==
    /\ last.op = "replace_with"
    /\ last.status = "warning"
    /\ parent[last.node] = None

(***************************************************************************)
(* Semantic objects on their own: a Parentmost object wf and the objects   *)
(* m, n1, n2 with their Semantics components; labels and parents are       *)
(* assigned through the setters, with values the setters accept and        *)
(* values they refuse, and objects are serialised and restored.            *)
(***************************************************************************)
MaxAssigns == 3

SemObjects == {"wf", "m", "n1", "n2"}
Parentmost == {"wf"}
Copies == {"copy1"}

\* Python values that may be assigned as a label
PyStr(s) == <<"str", s>>
PyInt == <<"int", "7">>
PyNone == <<"NoneType", "None">>
LabelValues == {PyStr("a"), PyStr("a/b"), PyInt, PyNone}

\* a value that is not None and has no semantics, assigned as a parent
NotSemantic == "a string"

delimiter == "/"

\* delimiter in new_label
HasDelimiter(s) == \E i \in 1..Len(s) : SubSeq(s, i, i) = delimiter

\* a label setter that takes any string
set_label_any_string(old, new) ==
    IF new[1] # "str" THEN [status |-> "TypeError", label |-> old]
    ELSE [status |-> "ok", label |-> new]

\* Semantics.label, the setter
set_label(old, new) ==
    IF new[1] # "str" THEN [status |-> "TypeError", label |-> old]
    ELSE IF HasDelimiter(new[2]) THEN [status |-> "ValueError", label |-> old]
    ELSE [status |-> "ok", label |-> new]

\* the objects that exist
Live(s) == {k \in DOMAIN s : s[k].live}

\* isinstance(new_parent, HasSemantics)
IsHasSemantics(s, p) == p \in Live(s)

\* a parent setter that lets a Parentmost object have a parent
set_parent_of_any(s, k, new) ==
    IF new # None /\ ~IsHasSemantics(s, new)
    THEN [status |-> "ValueError", parent |-> s[k].parent]
    ELSE [status |-> "ok", parent |-> new]

\* Semantics.parent, the setter
set_parent(s, k, new) ==
    IF new # None /\ k \in Parentmost
    THEN [status |-> "TypeError", parent |-> s[k].parent]
    ELSE IF new # None /\ ~IsHasSemantics(s, new)
    THEN [status |-> "ValueError", parent |-> s[k].parent]
    ELSE [status |-> "ok", parent |-> new]

\* the depth at which a recursion is given up (the interpreter's recursion
\* limit): more than there are objects, so that only a cycle reaches it
MaxDepth == 8

\* Semantics.root; RecursionError when the recursion does not end
RECURSIVE semantic_root(_, _, _)
semantic_root(s, k, depth) ==
    IF depth > MaxDepth THEN "RecursionError"
    ELSE IF s[k].parent = None THEN s[k].owner
    ELSE semantic_root(s, s[k].parent, depth + 1)

\* Semantics.path; RecursionError when the recursion does not end
RECURSIVE semantic_path(_, _, _)
semantic_path(s, k, depth) ==
    IF depth > MaxDepth THEN "RecursionError"
    ELSE LET prefix == IF s[k].parent = None THEN ""
                       ELSE semantic_path(s, s[k].parent, depth + 1)
         IN  IF prefix = "RecursionError" THEN prefix
             ELSE prefix \o delimiter \o s[k].label[2]

\* Semantics.__getstate__: a copy of the fields without parent and owner
getstate(s, k) == [s[k] EXCEPT !.parent = None, !.owner = None]

\* a restoring that leaves the semantics without owner
setstate_unowned(c, state) == state

\* Semantics.__setstate__ and HasSemantics.__setstate__ of the new object c
setstate(c, state) == [state EXCEPT !.owner = c]

\* the record of an operation on a semantic object
Semantic(op, k, other, status) ==
    /\ steps < MaxAssigns
    /\ steps' = steps + 1
    /\ last' = [op |-> op, node |-> k, other |-> other, status |-> status]
    /\ UNCHANGED <<label, parent, conn, inVal, outVal, running, failed, executor,
                   future, received, thread, composite, storage, loop, pkg, pool>>

\* obj.semantics.label = v
SetLabel(k, v) ==
    /\ k \in Live(sem)
    /\ LET r == set_label(sem[k].label, v)
       IN  /\ sem' = [sem EXCEPT ![k].label = r.label]
           /\ Semantic("set_label", k, v, r.status)

\* obj.semantics.parent = p
SetSemanticParent(k, p) ==
    /\ k \in Live(sem)
    /\ LET r == set_parent(sem, k, p)
       IN  /\ sem' = [sem EXCEPT ![k].parent = r.parent]
           /\ Semantic("set_parent", k, p, r.status)

\* c = pickle.loads(pickle.dumps(obj)), as when a node is shipped to an
\* executor
Ship(k, c) ==
    /\ k \in Live(sem)
    /\ c \in Copies \ Live(sem)
    /\ sem' = [sem EXCEPT ![c] = setstate(c, getstate(sem, k))]
    /\ Semantic("ship", k, c, "ok")

\* the objects as constructed: labelled by their names, m perhaps in wf, n1
\* perhaps in m or wf; no copy exists
SemInit ==
    /\ \E pm \in {None, "wf"}, p1 \in {None, "m", "wf"} :
        sem = [k \in SemObjects \cup Copies |->
                  [label |-> PyStr(k),
                   parent |-> CASE k = "m" -> pm [] k = "n1" -> p1 [] OTHER -> None,
                   owner |-> k,
                   live |-> k \in SemObjects]]
    /\ loop = Unused /\ pkg = Unused /\ pool = Unused
    /\ label = [n \in Nodes |-> n]
    /\ parent = [n \in Nodes |-> None]
    /\ conn = [ch \in Channels |-> <<>>]
    /\ starting = <<>>
    /\ channels = [k \in FnNodes |-> Compatible]
    /\ io = {}
    /\ registry = RegistryOf(parent)
    /\ maps = NoMaps
    /\ NoStorage
    /\ inVal = [k \in FnNodes |-> NotData]
    /\ outVal = [k \in FnNodes |-> NotData]
    /\ running = [n \in Nodes |-> FALSE]
    /\ failed = [n \in Nodes |-> FALSE]
    /\ executor = [n \in Nodes |-> FALSE]
    /\ future = [n \in Nodes |-> NoFuture]
    /\ received = [n \in Nodes |-> {}]
    /\ thread = [n \in Nodes |-> "none"]
    /\ last = Idle
    /\ steps = 0

SemNext ==
    \/ \E k \in SemObjects \cup Copies, v \in LabelValues : SetLabel(k, v)
    \/ \E k \in SemObjects \cup Copies,
          p \in {None, NotSemantic} \cup SemObjects \cup Copies : SetSemanticParent(k, p)
    \/ \E k \in SemObjects \cup Copies, c \in Copies : Ship(k, c)

SemSpec == SemInit /\ [][SemNext]_vars

(***************************************************************************)
(* The while-loop macro of meta.while_loop, as in the example of its       *)
(* docstring: the body Add (add = obj + other) takes obj from its own      *)
(* output once that holds data and from the macro input a before; the      *)
(* condition LessThan (lt = obj < other) takes obj from the body and other *)
(* from the macro input cap; the switch takes the condition's result.      *)
(* body.ran runs the condition, condition.ran runs the switch, switch.true *)
(* runs the body; the body is the starting node.  Each run of a node is a  *)
(* step; the runs nest, each called from the one before.                   *)
(***************************************************************************)
MaxCap == 4     \* the inputs a and cap are 0..MaxCap
MaxRuns == 2    \* runs of the macro

LoopNodes == {"body", "condition", "switch"}

\* a switch that goes on when the condition is false
SwitchNext_inverted(lt) == IF lt = IntVal(0) THEN "body" ELSE "macro"

\* If.on_run and the signal the switch fires: true is connected to the run of
\* the body, false to nothing, so that the calls return to the macro
SwitchNext(lt) == IF lt = IntVal(1) THEN "body" ELSE "macro"

\* the first source of the body's obj that holds data: its own output, else
\* the value the macro input has given it
BodyObj(l) == IF l.add # NotData THEN l.add ELSE IntVal(l.a)

LessThan(x, y) == IF x[2] < y THEN IntVal(1) ELSE IntVal(0)

LoopStep(node) ==
    /\ last' = [op |-> "loop", node |-> node, other |-> loop.next, status |-> "ok"]
    /\ UNCHANGED <<label, parent, conn, inVal, outVal, running, failed, executor,
                   future, received, thread, composite, storage, sem, pkg, pool>>

\* macro.run(): run_graph runs the starting node
RunLoop ==
    /\ loop.next \in {"idle", "done"}
    /\ steps < MaxRuns
    /\ steps' = steps + 1
    /\ loop' = [loop EXCEPT !.next = "body"]
    /\ LoopStep("macro")

\* the body runs: fetch, compute, commit, ran
RunBody ==
    /\ loop.next = "body"
    /\ loop' = [loop EXCEPT !.add = IntVal(BodyObj(loop)[2] + loop.b),
                            !.next = "condition"]
    /\ LoopStep("body")
    /\ UNCHANGED steps

\* the condition runs
RunCondition ==
    /\ loop.next = "condition"
    /\ loop' = [loop EXCEPT !.lt = LessThan(loop.add, loop.cap), !.next = "switch"]
    /\ LoopStep("condition")
    /\ UNCHANGED steps

\* the switch runs and fires true or false
RunSwitch ==
    /\ loop.next = "switch"
    /\ loop' = [loop EXCEPT !.next = SwitchNext(loop.lt)]
    /\ LoopStep("switch")
    /\ UNCHANGED steps

\* all runs have returned: the macro takes its output from the body
EndLoop ==
    /\ loop.next = "macro"
    /\ loop' = [loop EXCEPT !.total = loop.add, !.next = "done"]
    /\ LoopStep("end")
    /\ UNCHANGED steps

\* the macro with its inputs a, b and cap set, not yet run
LoopInit ==
    /\ \E a \in 0..MaxCap, b \in 0..2, cap \in 0..MaxCap :
        loop = [a |-> a, b |-> b, cap |-> cap, add |-> NotData, lt |-> NotData,
                total |-> NotData, next |-> "idle"]
    /\ sem = Unused /\ pkg = Unused /\ pool = Unused
    /\ label = [n \in Nodes |-> n]
    /\ parent = [n \in Nodes |-> None]
    /\ conn = [ch \in Channels |-> <<>>]
    /\ starting = <<>>
    /\ channels = [k \in FnNodes |-> Compatible]
    /\ io = {}
    /\ registry = RegistryOf(parent)
    /\ maps = NoMaps
    /\ NoStorage
    /\ inVal = [k \in FnNodes |-> NotData]
    /\ outVal = [k \in FnNodes |-> NotData]
    /\ running = [n \in Nodes |-> FALSE]
    /\ failed = [n \in Nodes |-> FALSE]
    /\ executor = [n \in Nodes |-> FALSE]
    /\ future = [n \in Nodes |-> NoFuture]
    /\ received = [n \in Nodes |-> {}]
    /\ thread = [n \in Nodes |-> "none"]
    /\ last = Idle
    /\ steps = 0

LoopNext == RunLoop \/ RunBody \/ RunCondition \/ RunSwitch \/ EndLoop

LoopSpec == LoopInit /\ [][LoopNext]_vars

\* a run that was called goes on: the interpreter does not stop between the
\* nested calls
FairLoopSpec ==
    LoopSpec /\ WF_vars(RunBody) /\ WF_vars(RunCondition) /\ WF_vars(RunSwitch)
             /\ WF_vars(EndLoop)

(***************************************************************************)
(* Node packages: two packages, built from node classes, extended by item  *)
(* or attribute assignment and changed by update.  The content of a        *)
(* package is a function from names to what is stored under them; the      *)
(* package_identifier of a node class is an attribute of the class.        *)
(***************************************************************************)
MaxPackageOps == 2
MaxClasses == 2     \* classes given to one constructor or update call

Packages == {"pkg.a", "pkg.b"}

\* node classes: A and AgainA both have the __name__ "A"
NodeClasses == {"A", "AgainA", "B"}
\* a class that is no subclass of Node, and an object that is no class
NotANode == "Other"
NotAClass == "42"
Items == NodeClasses \cup {NotANode, NotAClass}

\* node.__name__; an object that is no class has none
ClassName(v) == IF v = "AgainA" THEN "A" ELSE v

\* the names used as keys: class names, and the name of a method of the
\* package
Names == {"A", "B", "Other", "update"}

NODE_PACKAGE_ATTRIBUTES == {"package_identifier"}

Missing == "missing"

\* the package as super().__init__(package_identifier=...) leaves it
EmptyPackage == [k \in Names |-> Missing]

\* self.keys(): the stored names and package_identifier
Keys(c) == {k \in Names : c[k] # Missing} \cup NODE_PACKAGE_ATTRIBUTES

\* self.__dir__(): the attributes of the object and the stored names
Dir(c) == Keys(c) \cup {"update", "keys", "items"}

IsNodeClass(v) == v \in NodeClasses

\* a __setitem__ that overwrites what is stored
setitem_overwrites(s, id, key, value) ==
    IF s.status # "ok" THEN s
    ELSE IF IsNodeClass(value)
    THEN [s EXCEPT !.content[key] = value, !.ident[value] = id]
    ELSE [s EXCEPT !.status = "TypeError"]

\* NodePackage.__setitem__ on the package with identifier id, for a key
\* other than package_identifier
setitem(s, id, key, value) ==
    IF s.status # "ok" THEN s
    ELSE IF key \in Keys(s.content) THEN [s EXCEPT !.status = "KeyError"]
    ELSE IF key \in Dir(s.content) THEN [s EXCEPT !.status = "KeyError"]
    ELSE IF IsNodeClass(value)
    THEN [s EXCEPT !.content[key] = value, !.ident[value] = id]
    ELSE [s EXCEPT !.status = "TypeError"]

\* for node in node_classes: self[node.__name__] = node
RECURSIVE SetAll(_, _, _, _)
SetAll(s, id, classes, i) ==
    IF i > Len(classes) \/ s.status # "ok" THEN s
    ELSE SetAll(setitem(s, id, ClassName(classes[i]), classes[i]), id, classes, i + 1)

\* NodePackage.update: the names are collected (an object without __name__
\* raises here), the stored ones among them deleted, then every class is set
update(s, id, classes) ==
    LET names == {ClassName(classes[i]) : i \in 1..Len(classes)}
        cleared == [s EXCEPT !.content =
                       [k \in Names |-> IF k \in names THEN Missing ELSE s.content[k]]]
    IN  IF \E i \in 1..Len(classes) : classes[i] = NotAClass
        THEN [s EXCEPT !.status = "AttributeError"]
        ELSE SetAll(cleared, id, classes, 1)

\* NodePackage.__init__: issubclass raises TypeError for an object that is no
\* class; every class is set under its name
RECURSIVE InitAll(_, _, _, _)
InitAll(s, id, classes, i) ==
    IF i > Len(classes) \/ s.status # "ok" THEN s
    ELSE IF classes[i] = NotAClass THEN [s EXCEPT !.status = "TypeError"]
    ELSE InitAll(setitem(s, id, ClassName(classes[i]), classes[i]), id, classes, i + 1)

\* the package p seen as the state an operation works on
Package(p) == [content |-> pkg.content[p], ident |-> pkg.ident, status |-> "ok"]

\* len(package)
PackageLen(c) == Cardinality(Keys(c)) - Cardinality(NODE_PACKAGE_ATTRIBUTES)

PackageStep(op, p, other, r, made) ==
    /\ steps < MaxPackageOps
    /\ steps' = steps + 1
    /\ pkg' = [made |-> IF made THEN pkg.made \cup {p} ELSE pkg.made,
               content |-> [pkg.content EXCEPT ![p] = IF made THEN r.content ELSE @],
               ident |-> r.ident]
    /\ last' = [op |-> op, node |-> p, other |-> other, status |-> r.status]
    /\ UNCHANGED <<label, parent, conn, inVal, outVal, running, failed, executor,
                   future, received, thread, composite, storage, sem, loop, pool>>

\* p = NodePackage(identifier, *classes); no package comes of a constructor
\* that raises
NewPackage(p, classes) ==
    /\ p \notin pkg.made
    /\ LET r == InitAll([content |-> EmptyPackage, ident |-> pkg.ident,
                         status |-> "ok"], p, classes, 1)
       IN  PackageStep("package", p, classes, r, r.status = "ok")

\* package[key] = value, or package.key = value
SetItem(p, key, value) ==
    /\ p \in pkg.made
    /\ LET r == setitem(Package(p), p, key, value)
       IN  PackageStep("setitem", p, <<key, value>>, r, TRUE)

\* package.update(*classes)
Update(p, classes) ==
    /\ p \in pkg.made
    /\ LET r == update(Package(p), p, classes)
       IN  PackageStep("update", p, classes, r, TRUE)

\* no package yet, no class with an identifier
PackageInit ==
    /\ pkg = [made |-> {},
              content |-> [p \in Packages |-> EmptyPackage],
              ident |-> [c \in NodeClasses |-> None]]
    /\ sem = Unused /\ loop = Unused /\ pool = Unused
    /\ label = [n \in Nodes |-> n]
    /\ parent = [n \in Nodes |-> None]
    /\ conn = [ch \in Channels |-> <<>>]
    /\ starting = <<>>
    /\ channels = [k \in FnNodes |-> Compatible]
    /\ io = {}
    /\ registry = RegistryOf(parent)
    /\ maps = NoMaps
    /\ NoStorage
    /\ inVal = [k \in FnNodes |-> NotData]
    /\ outVal = [k \in FnNodes |-> NotData]
    /\ running = [n \in Nodes |-> FALSE]
    /\ failed = [n \in Nodes |-> FALSE]
    /\ executor = [n \in Nodes |-> FALSE]
    /\ future = [n \in Nodes |-> NoFuture]
    /\ received = [n \in Nodes |-> {}]
    /\ thread = [n \in Nodes |-> "none"]
    /\ last = Idle
    /\ steps = 0

PackageNext ==
    \/ \E p \in Packages, classes \in SeqsUpTo(Items, MaxClasses) : NewPackage(p, classes)
    \/ \E p \in Packages, key \in Names, value \in Items : SetItem(p, key, value)
    \/ \E p \in Packages, classes \in SeqsUpTo(Items, MaxClasses) : Update(p, classes)

PackageSpec == PackageInit /\ [][PackageNext]_vars

(***************************************************************************)
(* The process pool: threads that call submit on one                       *)
(* CloudProcessPoolExecutor.  A call goes statement by statement, so that  *)
(* the calls of several threads interleave wherever the lock of the        *)
(* executor lets them; the pool may be shut down or break meanwhile.       *)
(***************************************************************************)
MaxSubmits == 3     \* calls of submit

Threads == {"t1", "t2"}

\* version_info.minor of the interpreter: one that _submit refuses, 3.8, and
\* one of 3.9 and later
Minors == {7, 8, 9}

\* the ids a work item may get
WorkIds == 0..MaxSubmits

\* no work item under an id, no future in the hands of a thread
NoItem == 0

\* the lock that nobody holds
Free == "free"

\* with self._shutdown_lock, entered without waiting for the lock
shutdown_lock_ignored(t) == TRUE

\* with self._shutdown_lock: the thread gets in when nobody holds the lock
shutdown_lock_free(t) == pool.shutdown_lock = Free

\* the executor as constructed, seen by the given interpreter
NewPool(minor) ==
    [minor |-> minor,
     shutdown_lock |-> Free,
     broken |-> FALSE,
     shutdown_thread |-> FALSE,
     queue_count |-> 0,
     pending_work_items |-> [i \in WorkIds |-> NoItem],
     work_ids |-> <<>>,
     futures |-> 0,                          \* futures constructed so far
     pc |-> [t \in Threads |-> "idle"],      \* where each thread is in submit
     f |-> [t \in Threads |-> NoItem],       \* the local f of each thread
     down |-> [t \in Threads |-> FALSE],     \* pool down when t got the lock
     returned |-> <<>>]                      \* futures returned by submit

\* one step of thread t in submit; res is the future the call returns, or
\* NoItem while the call goes on or when it raises
PoolStep(t, op, res, status, new) ==
    /\ pool' = new
    /\ last' = [op |-> op, node |-> t, other |-> res, status |-> status]
    /\ UNCHANGED <<label, parent, conn, inVal, outVal, running, failed, executor,
                   future, received, thread, composite, storage, sem, loop, pkg>>

\* submit and _submit: the callable and its arguments are pickled, and the
\* version of the interpreter chooses the implementation or raises
SubmitCall(t) ==
    /\ pool.pc[t] = "idle"
    /\ steps < MaxSubmits
    /\ steps' = steps + 1
    /\ IF pool.minor >= 8
       THEN PoolStep(t, "call", NoItem, "ok", [pool EXCEPT !.pc[t] = "with"])
       ELSE PoolStep(t, "submit", NoItem, "RuntimeError", pool)

\* with self._shutdown_lock:
EnterLock(t) ==
    /\ pool.pc[t] = "with"
    /\ shutdown_lock_free(t)
    /\ PoolStep(t, "with", NoItem, "ok",
                [pool EXCEPT !.pc[t] = "check", !.shutdown_lock = t,
                             !.down[t] = pool.broken \/ pool.shutdown_thread])
    /\ UNCHANGED steps

\* if self._broken: raise ...; if self._shutdown_thread: raise ...; leaving
\* the with block by an exception releases the lock.  _global_shutdown is
\* the value the name had when the module was imported, which is False
CheckAlive(t) ==
    /\ pool.pc[t] = "check"
    /\ IF pool.broken
       THEN PoolStep(t, "submit", NoItem, "BrokenProcessPool",
                     [pool EXCEPT !.pc[t] = "idle", !.shutdown_lock = Free])
       ELSE IF pool.shutdown_thread
       THEN PoolStep(t, "submit", NoItem, "RuntimeError",
                     [pool EXCEPT !.pc[t] = "idle", !.shutdown_lock = Free])
       ELSE PoolStep(t, "check", NoItem, "ok", [pool EXCEPT !.pc[t] = "future"])
    /\ UNCHANGED steps

\* f = CloudLoadsFuture(); w = _WorkItem(f, fn, args, kwargs): a new object
MakeFuture(t) ==
    /\ pool.pc[t] = "future"
    /\ PoolStep(t, "future", NoItem, "ok",
                [pool EXCEPT !.pc[t] = "store", !.futures = @ + 1,
                             !.f[t] = pool.futures + 1])
    /\ UNCHANGED steps

\* self._pending_work_items[self._queue_count] = w
StoreItem(t) ==
    /\ pool.pc[t] = "store"
    /\ PoolStep(t, "store", NoItem, "ok",
                [pool EXCEPT !.pc[t] = "put",
                             !.pending_work_items[pool.queue_count] = pool.f[t]])
    /\ UNCHANGED steps

\* self._work_ids.put(self._queue_count)
PutId(t) ==
    /\ pool.pc[t] = "put"
    /\ PoolStep(t, "put", NoItem, "ok",
                [pool EXCEPT !.pc[t] = "count",
                             !.work_ids = Append(@, pool.queue_count)])
    /\ UNCHANGED steps

\* self._queue_count += 1
CountUp(t) ==
    /\ pool.pc[t] = "count"
    /\ PoolStep(t, "count", NoItem, "ok",
                [pool EXCEPT !.pc[t] = "return", !.queue_count = @ + 1])
    /\ UNCHANGED steps

\* the manager thread is woken and started, which leaves the queue as it is;
\* return f, and the with block releases the lock
ReturnFuture(t) ==
    /\ pool.pc[t] = "return"
    /\ PoolStep(t, "submit", pool.f[t], "ok",
                [pool EXCEPT !.pc[t] = "idle", !.f[t] = NoItem,
                             !.shutdown_lock =
                                 IF pool.shutdown_lock = t THEN Free ELSE @,
                             !.returned = Append(@, pool.f[t])])
    /\ UNCHANGED steps

\* executor.shutdown(): _shutdown_thread is set under the lock
ShutDown ==
    /\ ~pool.shutdown_thread
    /\ pool.shutdown_lock = Free
    /\ PoolStep(None, "shutdown", NoItem, "ok", [pool EXCEPT !.shutdown_thread = TRUE])
    /\ UNCHANGED steps

\* a worker process dies and the manager thread marks the pool broken,
\* whatever the submitting threads are doing
BreakPool ==
    /\ ~pool.broken
    /\ PoolStep(None, "break", NoItem, "ok", [pool EXCEPT !.broken = TRUE])
    /\ UNCHANGED steps

\* a new executor and no call yet
PoolInit ==
    /\ \E minor \in Minors : pool = NewPool(minor)
    /\ sem = Unused /\ loop = Unused /\ pkg = Unused
    /\ label = [n \in Nodes |-> n]
    /\ parent = [n \in Nodes |-> None]
    /\ conn = [ch \in Channels |-> <<>>]
    /\ starting = <<>>
    /\ channels = [k \in FnNodes |-> Compatible]
    /\ io = {}
    /\ registry = RegistryOf(parent)
    /\ maps = NoMaps
    /\ NoStorage
    /\ inVal = [k \in FnNodes |-> NotData]
    /\ outVal = [k \in FnNodes |-> NotData]
    /\ running = [n \in Nodes |-> FALSE]
    /\ failed = [n \in Nodes |-> FALSE]
    /\ executor = [n \in Nodes |-> FALSE]
    /\ future = [n \in Nodes |-> NoFuture]
    /\ received = [n \in Nodes |-> {}]
    /\ thread = [n \in Nodes |-> "none"]
    /\ last = Idle
    /\ steps = 0

PoolNext ==
    \/ \E t \in Threads : SubmitCall(t)
    \/ \E t \in Threads : EnterLock(t)
    \/ \E t \in Threads : CheckAlive(t)
    \/ \E t \in Threads : MakeFuture(t)
    \/ \E t \in Threads : StoreItem(t)
    \/ \E t \in Threads : PutId(t)
    \/ \E t \in Threads : CountUp(t)
    \/ \E t \in Threads : ReturnFuture(t)
    \/ ShutDown
    \/ BreakPool

PoolSpec == PoolInit /\ [][PoolNext]_vars

\* C32: the label of every object is a string without the delimiter, and so
\* is the temporary label of run_data_tree, the label followed by the id of
\* the object; an assignment of a non-string ends with TypeError, one of a
\* string with the delimiter with ValueError, both with the label as it was;
\* any other string becomes the label.
C32_LabelsValid ==
    /\ [](\A k \in Live(sem) :
            /\ sem[k].label[1] = "str"
            /\ ~HasDelimiter(sem[k].label[2])
            /\ ~HasDelimiter(sem[k].label[2] \o IdStr(k)))
    /\ [][last'.op = "set_label" =>
            LET k == last'.node
                v == last'.other
            IN  /\ v[1] # "str" =>
                      last'.status = "TypeError" /\ sem'[k].label = sem[k].label
                /\ (v[1] = "str" /\ HasDelimiter(v[2])) =>
                      last'.status = "ValueError" /\ sem'[k].label = sem[k].label
                /\ (v[1] = "str" /\ ~HasDelimiter(v[2])) =>
                      last'.status = "ok" /\ sem'[k].label = v]_vars

\* a label with the delimiter inside was refused and the label given before
\* it is still there
C32_Witness ==
    /\ last.op = "set_label"
    /\ last.other = PyStr("a/b")
    /\ last.status = "ValueError"
    /\ sem[last.node].label = PyStr("a")

\* a non-string was refused
C32_RefusedType ==
    /\ last.op = "set_label"
    /\ last.other = PyInt
    /\ last.status = "TypeError"

\* what the parent setter does to an object that may have a parent, and that
\* nothing but the parent of the object is touched
ParentAssigned ==
    last'.op = "set_parent" =>
        LET k == last'.node
            p == last'.other
        IN  /\ p = None => last'.status = "ok" /\ sem'[k].parent = None
            /\ (p # None /\ k \in Parentmost) =>
                  last'.status = "TypeError" /\ sem'[k].parent = None
            /\ (p \in Live(sem) /\ k \notin Parentmost) =>
                  last'.status = "ok" /\ sem'[k].parent = p
            /\ \A j \in DOMAIN sem : j # k => sem'[j] = sem[j]

\* C33 as stated: a Parentmost object never has a parent and refuses one with
\* TypeError; any object refuses a parent that is not None and has no
\* semantics with ValueError, keeping its parent; None is always accepted.
C33_ParentSetterRefuses ==
    /\ [](\A k \in Parentmost : sem[k].parent = None)
    /\ [][/\ ParentAssigned
          /\ (last'.op = "set_parent" /\ last'.other # None
                /\ last'.other \notin Live(sem)) =>
                last'.status = "ValueError"
                    /\ sem'[last'.node].parent = sem[last'.node].parent]_vars

\* C33, amended: it is an object other than a Parentmost one that refuses a
\* parent without semantics with ValueError; a Parentmost object refuses
\* every parent but None with TypeError.
C33_ParentmostRefusesFirst ==
    /\ [](\A k \in Parentmost : sem[k].parent = None)
    /\ [][/\ ParentAssigned
          /\ (last'.op = "set_parent" /\ last'.other # None
                /\ last'.other \notin Live(sem)) =>
                /\ last'.status =
                      (IF last'.node \in Parentmost THEN "TypeError" ELSE "ValueError")
                /\ sem'[last'.node].parent = sem[last'.node].parent]_vars

\* an object with a parent has refused a value without semantics and kept its
\* parent
C33_Witness ==
    /\ last.op = "set_parent"
    /\ last.other = NotSemantic
    /\ last.status = "ValueError"
    /\ sem[last.node].parent # None

\* the Parentmost object has refused a value without semantics
C33_ParentmostRefused ==
    /\ last.op = "set_parent"
    /\ last.node \in Parentmost
    /\ last.other = NotSemantic
    /\ last.status = "TypeError"

\* the objects above k: its parent, the parent of that, and so on
RECURSIVE Ancestors(_, _, _)
Ancestors(s, k, seen) ==
    IF s[k].parent = None \/ s[k].parent \in seen THEN seen
    ELSE Ancestors(s, s[k].parent, seen \cup {s[k].parent})

\* C34: the parent relation has no cycle; root and path end for every
\* object; the root is the one object among the object and its ancestors
\* that has no parent; the path is the path of the parent, the delimiter and
\* the label.
C34_ParentsAcyclic ==
    \A k \in Live(sem) :
        /\ k \notin Ancestors(sem, k, {})
        /\ semantic_root(sem, k, 0) # "RecursionError"
        /\ semantic_path(sem, k, 0) # "RecursionError"
        /\ \A r \in Ancestors(sem, k, {}) \cup {k} :
              sem[r].parent = None <=> r = semantic_root(sem, k, 0)
        /\ semantic_path(sem, k, 0) =
              (IF sem[k].parent = None THEN ""
               ELSE semantic_path(sem, sem[k].parent, 0))
                  \o delimiter \o sem[k].label[2]

\* the copy made of k by the last step
Shipped(k, c) == last'.op = "ship" /\ last'.node = k /\ last'.other = c

C36_LoopOrder ==
    /\ [][(last'.op = "loop" /\ last'.node # "macro") =>
            /\ last.op = "loop"
            /\ last'.node = "body" <=>
                  \/ last.node = "macro"
                  \/ last.node = "switch" /\ loop.lt = IntVal(1)
            /\ last'.node = "condition" <=> last.node = "body"
            /\ last'.node = "switch" <=> last.node = "condition"
            /\ last'.node = "end" <=> (last.node = "switch" /\ loop.lt = IntVal(0))
            /\ last'.node = "body" =>
                  loop'.add = IntVal((IF loop.add = NotData THEN loop.a
                                      ELSE loop.add[2]) + loop.b)
            /\ last'.node = "condition" =>
                  loop'.lt = IntVal(IF loop.add[2] < loop.cap THEN 1 ELSE 0)
            /\ last'.node = "end" =>
                  loop'.total = loop.add /\ loop'.next = "done"]_vars
    /\ [](loop.next = "done" => loop.add[2] >= loop.cap)
    /\ (loop.next = "switch" /\ loop.lt = IntVal(0)) ~> (loop.next = "done")
    /\ (loop.next = "body" /\ loop.b > 0) ~> (loop.next = "done")

\* a run of more than one round has ended: the output is the body's last
\* result, the first one that is not less than cap
C36_Witness ==
    /\ loop.next = "done"
    /\ loop.total = loop.add
    /\ loop.total[2] >= loop.a + 2 * loop.b
    /\ loop.total[2] - loop.b < loop.cap
    /\ loop.b > 0

\* the names under which the package holds something
StoredNames(c) == {k \in Names : c[k] # Missing}

\* C37: an assignment to a name that is stored or is an attribute of the
\* package ends with KeyError, one of a value that is no node class to a free
\* name with TypeError, both with the packages and the classes as they were;
\* a node class assigned to a free name is stored there and nothing else
\* changes in the package; len is the number of stored node classes.
C37_NoOverwrite ==
    /\ [](\A p \in pkg.made : PackageLen(pkg.content[p])
                                 = Cardinality(StoredNames(pkg.content[p])))
    /\ [][last'.op = "setitem" =>
            LET p == last'.node
                key == last'.other[1]
                value == last'.other[2]
                c == pkg.content[p]
                taken == c[key] # Missing \/ key = "update"
            IN  /\ taken => last'.status = "KeyError" /\ pkg' = pkg
                /\ (~taken /\ value \notin NodeClasses) =>
                      last'.status = "TypeError" /\ pkg' = pkg
                /\ (~taken /\ value \in NodeClasses) =>
                      /\ last'.status = "ok"
                      /\ pkg'.content[p] = [c EXCEPT ![key] = value]
                      /\ PackageLen(pkg'.content[p]) = PackageLen(c) + 1]_vars

\* an assignment to the name of a stored class was refused and the class is
\* still the one stored
C37_Witness ==
    /\ last.op = "setitem"
    /\ last.status = "KeyError"
    /\ last.other = <<"A", "AgainA">>
    /\ pkg.content[last.node]["A"] = "A"

\* a value that is no node class was refused
C37_RefusedValue ==
    /\ last.op = "setitem"
    /\ last.status = "TypeError"
    /\ last.other[2] = NotANode

\* an update that returns has stored every class under its name and kept
\* what is stored under the other names
UpdateStores ==
    (last'.op = "update" /\ last'.status = "ok") =>
        LET p == last'.node
            classes == last'.other
            names == {ClassName(classes[i]) : i \in 1..Len(classes)}
        IN  /\ \A i \in 1..Len(classes) :
                  pkg'.content[p][ClassName(classes[i])] = classes[i]
            /\ \A k \in Names \ names : pkg'.content[p][k] = pkg.content[p][k]

\* C38: after update every given class is stored under its name and every
\* other stored class is kept; an update that raises leaves the content of
\* the package as it was.
C38_UpdateAllOrNothing ==
    [][/\ UpdateStores
       /\ (last'.op = "update" /\ last'.status # "ok") =>
              pkg'.content = pkg.content]_vars

\* C39: every node class a package holds has the identifier of that package.
C39_IdentifierOfHolder ==
    \A p \in pkg.made, k \in Names :
        pkg.content[p][k] \in NodeClasses => pkg.ident[pkg.content[p][k]] = p

\* the ids under which a work item is pending
Pending(p) == {i \in WorkIds : p.pending_work_items[i] # NoItem}

\* C40: whatever the interleaving of the calls, the ids in the queue are
\* 0, 1, 2, ... in this order, each once; the pending work items have
\* different futures; the futures returned are all different and each is
\* pending under one id that is in the queue; no step changes a pending work
\* item or takes an id out of the queue; a call returns the future it made; a
\* call that gets the lock of an executor that is broken or shut down raises,
\* and a call that raises has put nothing into the queue.
C40_SubmitsSerialised ==
    /\ [](/\ pool.work_ids = [i \in 1..Len(pool.work_ids) |-> i - 1]
          /\ \A i, j \in Pending(pool) :
                i # j => pool.pending_work_items[i] # pool.pending_work_items[j]
          /\ \A i, j \in 1..Len(pool.returned) :
                i # j => pool.returned[i] # pool.returned[j]
          /\ \A i \in 1..Len(pool.returned) :
                \E k \in 1..Len(pool.work_ids) :
                    pool.pending_work_items[pool.work_ids[k]] = pool.returned[i])
    /\ [][/\ \A i \in Pending(pool) :
                pool'.pending_work_items[i] = pool.pending_work_items[i]
          /\ SubSeq(pool'.work_ids, 1, Len(pool.work_ids)) = pool.work_ids
          /\ (last'.op = "submit" /\ last'.status = "ok") =>
                /\ last'.other = pool.f[last'.node]
                /\ last'.other # NoItem
                /\ ~pool.down[last'.node]
                /\ pool.pending_work_items[pool.queue_count - 1] = last'.other
          /\ (last'.op = "check" /\ last'.status = "ok") => ~pool.down[last'.node]
          /\ (last'.op \in {"call", "with", "check"}
                \/ (last'.op = "submit" /\ last'.status # "ok")) =>
                /\ pool'.pending_work_items = pool.pending_work_items
                /\ pool'.work_ids = pool.work_ids
                /\ pool'.queue_count = pool.queue_count
                /\ pool'.returned = pool.returned]_vars

\* two calls have returned their futures and one of them had to wait for the
\* lock while the other was between storing its work item and counting up
C40_Witness ==
    /\ Len(pool.returned) = 2
    /\ pool.work_ids = <<0, 1>>
    /\ pool.pending_work_items[0] # pool.pending_work_items[1]
    /\ last.op = "submit" /\ last.status = "ok"
    /\ last.other = pool.pending_work_items[1]

\* a thread waits at the lock while another is about to put its id
C40_Concurrent ==
    \E t, u \in Threads :
        /\ pool.pc[t] = "put"
        /\ pool.pc[u] = "with"
        /\ Len(pool.returned) = 1

\* a call on the broken pool has raised after an earlier call was accepted,
\* and the queue holds the one accepted id
C40_RaisedOnBroken ==
    /\ last.op = "submit" /\ last.status = "BrokenProcessPool"
    /\ pool.work_ids = <<0>>
    /\ pool.queue_count = 1

====
